---- MODULE Spec2Model ----
(***************************************************************************)
(* Model of the Juegos Nacionales Salesianos 2025 scraper:                 *)
(*   enhanced-scraper.js  fetchWithRetry, saveToFile, scrapeMainPage,       *)
(*                        scrapeSportPage, runScraper                      *)
(*   data-processor.js    processAllSportsData, runScraperAndProcessData   *)
(*   CLI script           runScraperCommand, processDataCommand,           *)
(*                        runBothCommand, processCommand, startCLI         *)
(* Every await of the code is a suspension point and one step of the model.*)
(* Left out: timestamps (new Date()), console output, the interactive       *)
(* prompt loop of the CLI (only a command on argv is modelled), and the     *)
(* content of the debug snapshots.  A document is the tree of elements      *)
(* cheerio.load makes of a page; selections, .find(), .text(), .trim() and  *)
(* the other calls of the scrapers are operators on it.  Of scrapeMainPage  *)
(* the title is extracted; of the minimal scraper in web-scraper.js the     *)
(* title of a table.                                                        *)
(* The two awaits of saveHtmlForDebugging are one step, as are the writes   *)
(* processAllSportsData makes for one sport.                                *)
(***************************************************************************)
EXTENDS Naturals, Integers, Sequences, FiniteSets, TLC

VARIABLES
  fpc,        \* fetchWithRetry: "idle" | "get" | "delay" | "returned" | "thrown"
  furl,       \* fetchWithRetry: the url argument
  retries,    \* fetchWithRetry: the retries argument of the current frame
  fresult,    \* fetchWithRetry: the response returned or the error thrown
  caught,     \* fetchWithRetry: the error bound by the catch of the current frame
  inflight,   \* number of axios GET requests issued and not yet settled
  attempts,   \* outcomes of the GET attempts of the current fetchWithRetry call, in order
  waits,      \* durations of the delay() calls completed since the last GET settled
  fetched,    \* urls in the order in which their first GET attempt was issued
  failedFetches, \* urls whose fetchWithRetry call has thrown
  pc,         \* runScraper: the await it is suspended at
  spc,        \* scrapeMainPage / scrapeSportPage: the await it is suspended at
  idx,        \* runScraper: position of the for..of loop in SPORTS
  mainPageData, \* runScraper: const mainPageData
  sportsData, \* runScraper: const sportsData = {}
  runResult,  \* runScraper: the summary returned or the error thrown
  outDir,     \* disk: CONFIG.outputDir exists
  files,      \* disk: content of the JSON and debug files in CONFIG.outputDir
  logFile,    \* disk: entries of scraping_log.txt
  ioFaults,   \* environment: file system calls that failed so far
  script,     \* the script node was started with
  argv,       \* process.argv.slice(2)[0]
  cpc,        \* the CLI / runScraperAndProcessData: the await it is suspended at
  scrapeSuccess,  \* value returned by runScraperCommand
  processSuccess, \* value returned by processDataCommand
  cmdResult,  \* value returned by processCommand / runScraperAndProcessData
  exitCode,   \* exit code of the node process, -1 while it runs
  ppc,        \* processAllSportsData: the await it is suspended at
  pidx,       \* processAllSportsData: position of the loop over allData.sports
  processed,  \* value returned by processAllSportsData
  perror,     \* processAllSportsData: the error its catch was entered with
  reports,    \* disk: the report pages written into CONFIG.reportsDir
  dom,        \* the document cheerio.load parsed
  extracted,  \* what the page scraper extracted from it
  input,      \* the arguments a report function is called with
  report      \* what the report function returned

fetchVars == <<fpc, furl, retries, fresult, caught, inflight, attempts, waits, fetched,
               failedFetches>>
runVars == <<pc, spc, idx, mainPageData, sportsData, runResult>>
diskVars == <<outDir, files, logFile, ioFaults>>
cliVars == <<script, argv, cpc, scrapeSuccess, processSuccess, cmdResult, exitCode>>
procVars == <<ppc, pidx, processed, perror, reports>>
extractVars == <<dom, extracted>>
reportVars == <<input, report>>
vars == <<fetchVars, runVars, diskVars, cliVars, procVars, extractVars, reportVars>>

-----------------------------------------------------------------------------
(* CONFIG and SPORTS of enhanced-scraper.js                                *)

baseUrl == "https://clasico.com.do/juegos-nacionales-salesianos-2025/"
requestDelay == 1500
maxRetries == 3
retryDelay == 2000

SPORTS == <<
  [name |-> "Fútbol",        urlPath |-> "futbol"],
  [name |-> "Atletismo",     urlPath |-> "atletismo"],
  [name |-> "Baloncesto",    urlPath |-> "baloncesto"],
  [name |-> "Ajedrez",       urlPath |-> "ajedrez"],
  [name |-> "Voleibol",      urlPath |-> "voleibol"],
  [name |-> "Tenis de Mesa", urlPath |-> "tenis-de-mesa"],
  [name |-> "Béisbol",       urlPath |-> "beisbol"],
  [name |-> "Fútbol Sala",   urlPath |-> "futbol-sala"] >>

\* const sportUrl = `${CONFIG.baseUrl}${sport.urlPath}/`
sportUrl(sport) == baseUrl \o sport.urlPath \o "/"

\* JavaScript null, for variables that otherwise hold an object
null == [null |-> TRUE]
\* JavaScript undefined, for properties that otherwise hold a string
undefined == "undefined"

-----------------------------------------------------------------------------
(* The network: what one axiosInstance.get can end in.  A request that gets *)
(* no answer within timeoutMs is rejected by axios like any other failure. *)

ErrorKinds == {"timeout of 30000ms exceeded", "Request failed with status code 500"}
\* a whole run is explored with one kind of failure: sportsData keeps the message
\* of every failed page, and the kinds are told apart by fetchWithRetry on its own
RunErrorKinds == {"timeout of 30000ms exceeded"}

\* pages whose fetch has failed for good; at most MaxFailedPages of the nine pages
\* of a run fail
MaxFailedPages == 2

FailedPages == Cardinality(failedFetches)

\* the error object of a failed attempt: its message and the attempt it belongs to
AttemptError(kind, n) == [message |-> kind, attempt |-> n]
\* the response object of a successful attempt
Response(url, n) == [data |-> url, attempt |-> n]

-----------------------------------------------------------------------------
(* delay(ms): resolves after ms milliseconds                               *)

delay(ms) == waits' = Append(waits, ms)

-----------------------------------------------------------------------------
(* fetchWithRetry(url, options = {}, retries = CONFIG.maxRetries)          *)

\* the call itself: the first axiosInstance.get is issued
fetchWithRetry(url) ==
  /\ fpc' = "get"
  /\ furl' = url
  /\ retries' = maxRetries
  /\ fresult' = null
  /\ caught' = null
  /\ attempts' = <<>>
  /\ inflight' = inflight + 1
  /\ fetched' = Append(fetched, url)
  /\ UNCHANGED failedFetches

\* try { const response = await axiosInstance.get(url, options); return response; }
FetchGetResolves ==
  /\ fpc = "get"
  /\ fpc' = "returned"
  /\ fresult' = Response(furl, Len(attempts) + 1)
  /\ attempts' = Append(attempts, "ok")
  /\ inflight' = inflight - 1
  /\ waits' = <<>>
  /\ UNCHANGED <<furl, retries, caught, fetched, failedFetches, runVars, diskVars, cliVars, procVars>>
  /\ UNCHANGED <<extractVars, reportVars>>

\* variant: gives up one retry early (retries <= 1 instead of retries <= 0)
FetchGetRejectsEarly(kinds) ==
  /\ fpc = "get"
  /\ retries <= 1 => FailedPages < MaxFailedPages
  /\ \E kind \in kinds :
       LET error == AttemptError(kind, Len(attempts) + 1) IN
         /\ attempts' = Append(attempts, kind)
         /\ IF retries <= 1
              THEN /\ fpc' = "thrown"
                   /\ fresult' = error
                   /\ caught' = null
                   /\ failedFetches' = failedFetches \cup {furl}
              ELSE /\ fpc' = "delay"
                   /\ caught' = error
                   /\ UNCHANGED <<fresult, failedFetches>>
  /\ inflight' = inflight - 1
  /\ waits' = <<>>
  /\ UNCHANGED <<furl, retries, fetched, runVars, diskVars, cliVars, procVars>>
  /\ UNCHANGED <<extractVars, reportVars>>

\* catch (error) { if (retries <= 0) throw error; ...
FetchGetRejects(kinds) ==
  /\ fpc = "get"
  /\ retries <= 0 => FailedPages < MaxFailedPages
  /\ \E kind \in kinds :
       LET error == AttemptError(kind, Len(attempts) + 1) IN
         /\ attempts' = Append(attempts, kind)
         /\ IF retries <= 0
              THEN /\ fpc' = "thrown"
                   /\ fresult' = error
                   /\ caught' = null
                   /\ failedFetches' = failedFetches \cup {furl}
              ELSE /\ fpc' = "delay"
                   /\ caught' = error
                   /\ UNCHANGED <<fresult, failedFetches>>
  /\ inflight' = inflight - 1
  /\ waits' = <<>>
  /\ UNCHANGED <<furl, retries, fetched, runVars, diskVars, cliVars, procVars>>
  /\ UNCHANGED <<extractVars, reportVars>>

\* variant: the retry passes the budget on unchanged (retries instead of retries - 1)
FetchRetryKeepsBudget ==
  /\ fpc = "delay"
  /\ delay(retryDelay)
  /\ retries' = retries
  /\ caught' = null
  /\ fpc' = "get"
  /\ inflight' = inflight + 1
  /\ UNCHANGED <<furl, fresult, attempts, fetched, failedFetches, runVars, diskVars, cliVars, procVars>>
  /\ UNCHANGED <<extractVars, reportVars>>

\* variant: exponential backoff, the wait doubles with every attempt
FetchRetryBackoff ==
  /\ fpc = "delay"
  /\ delay(retryDelay * 2^(maxRetries - retries))
  /\ retries' = retries - 1
  /\ caught' = null
  /\ fpc' = "get"
  /\ inflight' = inflight + 1
  /\ UNCHANGED <<furl, fresult, attempts, fetched, failedFetches, runVars, diskVars, cliVars, procVars>>
  /\ UNCHANGED <<extractVars, reportVars>>

\* await delay(CONFIG.retryDelay); return fetchWithRetry(url, options, retries - 1);
FetchRetry ==
  /\ fpc = "delay"
  /\ delay(retryDelay)
  /\ retries' = retries - 1
  /\ caught' = null
  /\ fpc' = "get"
  /\ inflight' = inflight + 1
  /\ UNCHANGED <<furl, fresult, attempts, fetched, failedFetches, runVars, diskVars, cliVars, procVars>>
  /\ UNCHANGED <<extractVars, reportVars>>

FetchStep == FetchGetResolves \/ FetchGetRejects(ErrorKinds) \/ FetchRetry

fetchDone == fpc \in {"returned", "thrown"}

-----------------------------------------------------------------------------
(* The site: the urls of its pages                                          *)

PageUrls == {baseUrl} \cup {sportUrl(SPORTS[i]) : i \in 1..Len(SPORTS)}

SportIndex(url) == CHOOSE i \in 1..Len(SPORTS) : sportUrl(SPORTS[i]) = url

-----------------------------------------------------------------------------
(* The file system                                                          *)

\* sport.name.toLowerCase().replace(/\s+/g, '_')
FileStem(name) ==
  CASE name = "Fútbol"        -> "fútbol"
    [] name = "Atletismo"     -> "atletismo"
    [] name = "Baloncesto"    -> "baloncesto"
    [] name = "Ajedrez"       -> "ajedrez"
    [] name = "Voleibol"      -> "voleibol"
    [] name = "Tenis de Mesa" -> "tenis_de_mesa"
    [] name = "Béisbol"       -> "béisbol"
    [] name = "Fútbol Sala"   -> "fútbol_sala"

SportFile(sport) == FileStem(sport.name) \o ".json"

JsonFiles == {"main_page.json", "all_data.json", "summary.json"}
               \cup {SportFile(SPORTS[i]) : i \in 1..Len(SPORTS)}
\* the snapshots in debug/ are written and never read: only the call is modelled
FileNames == JsonFiles

\* content of a file that does not exist
absent == [absent |-> TRUE]

\* one call into the file system either succeeds or fails; at most MaxIOFaults
\* of them fail in one behaviour
MaxIOFaults == 1

IO(ok) ==
  /\ ok \in BOOLEAN
  /\ ~ok => ioFaults < MaxIOFaults
  /\ ioFaults' = IF ok THEN ioFaults ELSE ioFaults + 1

\* writeFileAsync(filePath, content, 'utf8')
writeFile(ok, filename, content) ==
  files' = IF ok THEN [files EXCEPT ![filename] = content] ELSE files

\* writeFileAsync(logFile, entry, { flag: 'a' })
appendLog(ok, entry) ==
  logFile' = IF ok THEN Append(logFile, entry) ELSE logFile

-----------------------------------------------------------------------------
(* cheerio: the parsed document and the selections made in it.  An element  *)
(* has a tag, classes, attributes, the text it holds directly (taken to come *)
(* before its child elements) and child elements.  An element is addressed  *)
(* by its path, the child positions from the root; a selection (a cheerio   *)
(* object) is a sequence of paths in document order.                        *)

Element(tag, class, attrs, txt, kids) ==
  [tag |-> tag, class |-> class, attr |-> attrs, text |-> txt, kids |-> kids]

\* attributes: pairs of a name and a value
NoAttrs == {}

RECURSIVE At(_, _)
At(d, path) == IF path = << >> THEN d ELSE At(d.kids[Head(path)], Tail(path))

\* the descendants of the element at path, in document order
RECURSIVE Below(_, _)
Below(d, path) ==
  LET n == Len(At(d, path).kids)
      RECURSIVE From(_)
      From(k) == IF k > n THEN << >>
                 ELSE <<Append(path, k)>> \o Below(d, Append(path, k)) \o From(k + 1)
  IN From(1)

IsProperPrefix(p, q) == Len(p) < Len(q) /\ SubSeq(q, 1, Len(p)) = p

Parent(path) == SubSeq(path, 1, Len(path) - 1)

\* simple selectors: 'h3', '.title', 'td:nth-child(2)', '.hero img'
Tag(name) == [kind |-> "tag", name |-> name]
Class(name) == [kind |-> "class", name |-> name]
NthChild(name, n) == [kind |-> "nth-child", name |-> name, n |-> n]
Inside(ancestor, name) == [kind |-> "descendant", ancestor |-> ancestor, name |-> name]

\* the element at path matches the simple selector s
Is(d, path, s) ==
  LET el == At(d, path)
      Simple(q, t) == IF t.kind = "tag" THEN At(d, q).tag = t.name
                      ELSE t.name \in At(d, q).class
  IN CASE s.kind \in {"tag", "class"} -> Simple(path, s)
       [] s.kind = "nth-child" ->
            /\ el.tag = s.name
            /\ path # << >>
            /\ path[Len(path)] = s.n
       [] s.kind = "descendant" ->
            /\ el.tag = s.name
            /\ \E k \in 1..(Len(path) - 1) : Simple(SubSeq(path, 1, k), s.ancestor)

\* a selector with commas is the sequence of its simple selectors
MatchesSelector(d, path, selector) == \E k \in 1..Len(selector) : Is(d, path, selector[k])

\* cheerio(selection).find(selector)
find(d, selection, selector) ==
  LET Found(p) == /\ MatchesSelector(d, p, selector)
                  /\ \E k \in 1..Len(selection) : IsProperPrefix(selection[k], p)
  IN SelectSeq(Below(d, << >>), Found)

\* $(selector)
Query(d, selector) == find(d, << << >> >>, selector)

first(selection) == IF selection = << >> THEN << >> ELSE <<selection[1]>>
last(selection) == IF selection = << >> THEN << >> ELSE <<selection[Len(selection)]>>

\* the text content of one element: its own text and that of its descendants
RECURSIVE TextContent(_)
TextContent(el) ==
  LET RECURSIVE Kids(_)
      Kids(k) == IF k > Len(el.kids) THEN "" ELSE TextContent(el.kids[k]) \o Kids(k + 1)
  IN el.text \o Kids(1)

\* selection.text(): the text contents of all its elements, concatenated
RECURSIVE text(_, _)
text(d, selection) ==
  IF selection = << >> THEN ""
  ELSE TextContent(At(d, Head(selection))) \o text(d, Tail(selection))

\* selection.attr(name): of the first element; undefined without element or attribute
attr(d, selection, name) ==
  IF selection = << >> THEN undefined
  ELSE LET el == At(d, selection[1])
       IN IF \E a \in el.attr : a[1] = name
            THEN (CHOOSE a \in el.attr : a[1] = name)[2]
            ELSE undefined

hasClass(d, selection, name) ==
  \E k \in 1..Len(selection) : name \in At(d, selection[k]).class

\* selection.prev(selector): the sibling right before each element, if it matches
prev(d, selection, selector) ==
  LET Before(p) == Append(Parent(p), p[Len(p)] - 1)
      Has(p) == /\ p # << >>
                /\ p[Len(p)] > 1
                /\ MatchesSelector(d, Before(p), selector)
      kept == SelectSeq(selection, Has)
  IN [k \in 1..Len(kept) |-> Before(kept[k])]

\* selection.closest(selector): for each element the nearest of itself and its
\* ancestors that matches
closest(d, selection, selector) ==
  LET Hits(p) == {k \in 0..Len(p) : MatchesSelector(d, SubSeq(p, 1, k), selector)}
      Nearest(p) == SubSeq(p, 1, CHOOSE k \in Hits(p) : \A j \in Hits(p) : j <= k)
      Hit(p) == Hits(p) # {}
      Wanted(q) == \E k \in 1..Len(selection) : Hit(selection[k]) /\ Nearest(selection[k]) = q
  IN SelectSeq(<< << >> >> \o Below(d, << >>), Wanted)

\* String.prototype.trim()
IsSpace(c) == c \in {" ", "\n", "\t"}

RECURSIVE trimStart(_)
trimStart(str) ==
  IF str # "" /\ IsSpace(SubSeq(str, 1, 1)) THEN trimStart(SubSeq(str, 2, Len(str))) ELSE str

RECURSIVE trimEnd(_)
trimEnd(str) ==
  IF str # "" /\ IsSpace(SubSeq(str, Len(str), Len(str)))
    THEN trimEnd(SubSeq(str, 1, Len(str) - 1)) ELSE str

trim(str) == trimEnd(trimStart(str))

\* a || b for strings and undefined
Or(a, b) == IF a \in {"", undefined} THEN b ELSE a

\* String.prototype.includes(part)
includes(str, part) ==
  \E k \in 1..(Len(str) - Len(part) + 1) : SubSeq(str, k, k + Len(part) - 1) = part

-----------------------------------------------------------------------------
(* Documents: the pages the extraction is applied to, built from their      *)
(* parts.  A text is given as it stands in the markup (raw) together with   *)
(* what is left of it without the white space around it (clean).            *)

Leaf(tag, class, txt) == Element(tag, class, NoAttrs, txt, << >>)
Node(tag, class, kids) == Element(tag, class, NoAttrs, "", kids)
Img(attrs) == Element("img", {}, attrs, "", << >>)
Document(kids) == Node("html", {}, kids)

\* at most MaxRows data rows in a table, MaxTeams participants in a match
MaxRows == 2
MaxTeams == 2

NoText == [raw |-> "", clean |-> ""]
Blank == [raw |-> " \n ", clean |-> ""]
Texts(word) ==
  {NoText, Blank,
   [raw |-> word, clean |-> word],
   [raw |-> "\n  " \o word \o " ", clean |-> word]}

\* an optional element: nothing when the text is NoText
Maybe(txt, element) == IF txt = NoText THEN << >> ELSE <<element>>

\* the page title in up to three places, the h1 last in the document
TitleParams == [h1 : Texts("Torneo de Fútbol"), entry : {NoText, [raw |-> " Entrada", clean |-> "Entrada"]},
                page : {NoText, [raw |-> "Página", clean |-> "Página"]}]

TitleDocument(p) ==
  Document(Maybe(p.page, Leaf("div", {"page-title"}, p.page.raw))
           \o Maybe(p.entry, Leaf("h2", {"entry-title"}, p.entry.raw))
           \o Maybe(p.h1, Leaf("h1", {}, p.h1.raw)))

\* a table: what stands right before it (a heading or a category label), its
\* caption, the heading of the block around it (a paragraph comes between that
\* heading and the rest of the block), a header row and data rows
TableParams ==
  [heading  : {NoText, Blank, [raw |-> " Standings\n", clean |-> "Standings"]},
   label    : {NoText, [raw |-> "Sub-15", clean |-> "Sub-15"]},
   caption  : {NoText, [raw |-> "Final Sub-15", clean |-> "Final Sub-15"]},
   block    : {NoText, [raw |-> " Sub-15 ", clean |-> "Sub-15"],
               [raw |-> "Grupo A", clean |-> "Grupo A"]},
   rows     : 0..MaxRows,
   cell     : {"plain", "winner", "img", "spaced"}]

TableRow(p, r) ==
  Node("tr", {},
       << Leaf("td", {}, ToString(r)),
          CASE p.cell = "plain"  -> Leaf("td", {}, " Don Bosco ")
            [] p.cell = "winner" -> Leaf("td", {"winner"}, "")
            [] p.cell = "img"    -> Element("td", {}, NoAttrs, "", <<Img(NoAttrs)>>)
            [] p.cell = "spaced" -> Leaf("td", {}, "Don  Bosco\n  Santo Domingo"),
          Leaf("td", {}, "") >>)

TableElement(p, class) ==
  Node("table", class,
       Maybe(p.caption, Leaf("caption", {}, p.caption.raw))
       \o << Node("tr", {}, <<Leaf("th", {}, "Pos"), Leaf("th", {}, "Equipo"),
                              Leaf("th", {}, "Pts")>>) >>
       \o [r \in 1..p.rows |-> TableRow(p, r)])

\* the heading comes right before the table, or else the category label does
TableWithSiblings(p, class) ==
  (IF p.heading # NoText THEN <<Leaf("h3", {}, p.heading.raw)>>
   ELSE Maybe(p.label, Leaf("div", {"category"}, p.label.raw)))
  \o <<TableElement(p, class)>>

TableDocument(p, class) ==
  Document(<< Node("table", {}, << >>) >>
           \o (IF p.block = NoText THEN TableWithSiblings(p, class)
               ELSE << Node("div", {"category-container"},
                            <<Leaf("h4", {}, p.block.raw), Leaf("p", {}, "Nota")>>
                            \o TableWithSiblings(p, class)) >>))

\* a match: any of title, score and date, and some participants
MatchParams ==
  [title : Texts("Final"),
   score : {NoText, [raw |-> " 2 - 1 ", clean |-> "2 - 1"]},
   date  : {NoText, [raw |-> "12 de julio", clean |-> "12 de julio"]},
   teams : 0..MaxTeams,
   tag   : {"div", "article"}]

MatchDocument(p) ==
  Document(<< Node(p.tag, {"match"},
                   Maybe(p.title, Leaf("h3", {}, p.title.raw))
                   \o [k \in 1..p.teams |-> Leaf("span", {"team-name"}, " Equipo " \o ToString(k))]
                   \o Maybe(p.score, Leaf("span", {"score"}, p.score.raw))
                   \o Maybe(p.date, Leaf("time", {}, p.date.raw))) >>)

\* a news entry: any of title, text and picture
NewsParams ==
  [title   : Texts("Inauguración"),
   content : {NoText, [raw |-> "Arrancan  los juegos.", clean |-> "Arrancan  los juegos."]},
   image   : {"none", "nosrc", "src"}]

NewsDocument(p) ==
  Document(<< Node("div", {"news"},
                   Maybe(p.title, Leaf("h2", {}, p.title.raw))
                   \o Maybe(p.content, Leaf("p", {}, p.content.raw))
                   \o (CASE p.image = "none"  -> << >>
                         [] p.image = "nosrc" -> <<Img(NoAttrs)>>
                         [] p.image = "src"   -> <<Img({<<"src", "foto.jpg">>})>>)) >>)

\* a medal list: items with any of position, name and school
MedalParams ==
  [position : {NoText, [raw |-> " Oro ", clean |-> "Oro"]},
   name     : Texts("Ana Pérez"),
   school   : {NoText, [raw |-> "Don Bosco", clean |-> "Don Bosco"]},
   items    : 0..MaxRows]

MedalDocument(p) ==
  Document(<< Node("ul", {"medals"},
                   [k \in 1..p.items |->
                      Node("li", {},
                           Maybe(p.position, Leaf("span", {"position"}, p.position.raw))
                           \o Maybe(p.name, Leaf("span", {"name"}, p.name.raw))
                           \o Maybe(p.school, Leaf("span", {"school"}, p.school.raw)))]) >>)

\* a gallery: a figure with a picture and possibly a caption
GalleryParams ==
  [src     : {"none", "empty", "foto.jpg"},
   alt     : {"none", "Final"},
   caption : {NoText, [raw |-> " Premiación ", clean |-> "Premiación"]}]

GalleryDocument(p) ==
  Document(<< Node("div", {"gallery"},
                   << Node("figure", {},
                           << Img((IF p.src = "none" THEN {}
                                   ELSE {<<"src", IF p.src = "empty" THEN "" ELSE p.src>>})
                                  \cup (IF p.alt = "none" THEN {} ELSE {<<"alt", p.alt>>})) >>
                           \o Maybe(p.caption, Leaf("figcaption", {}, p.caption.raw))) >>) >>)

Documents ==
  {TitleDocument(p) : p \in TitleParams}
    \cup {TableDocument(p, {}) : p \in TableParams}
    \cup {TableDocument(p, {"standings"}) : p \in TableParams}
    \cup {MatchDocument(p) : p \in MatchParams}
    \cup {NewsDocument(p) : p \in NewsParams}
    \cup {MedalDocument(p) : p \in MedalParams}
    \cup {GalleryDocument(p) : p \in GalleryParams}

-----------------------------------------------------------------------------
(* The site: the document served for each url.  The main page has a title,  *)
(* a sport page holds a results table.                                      *)

Html(url) ==
  IF url = baseUrl
    THEN Document(<< Node("head", {},
                          <<Leaf("title", {},
                                 "\n  Juegos Nacionales Salesianos 2025 -  Clasico\n")>>) >>)
    ELSE LET i == SportIndex(url) IN
         TableDocument([heading |-> IF i % 2 = 0 THEN NoText
                                    ELSE [raw |-> " Standings\n", clean |-> "Standings"],
                        label   |-> NoText,
                        caption |-> NoText,
                        block   |-> NoText,
                        rows    |-> i % (MaxRows + 1),
                        cell    |-> "plain"], {})

-----------------------------------------------------------------------------
(* scrapeSportPage(sport): what lines 253-462 make of the parsed document   *)

\* the outcome of a piece of code: the value it yields or the error it throws
Return(value) == [threw |-> FALSE, value |-> value]
Throw(message) == [threw |-> TRUE, error |-> [message |-> message]]

\* a cheerio object passed as an argument
Cheerio(selection) == [selection |-> selection]

\* function extractWithFallbackSelectors($, selectors, context = null)
\*   const element = context || $;
\* `$`, the function cheerio.load returned, is not a selection and has no method
\* find: without context, element.find(selector) is a TypeError
extractWithFallbackSelectors(d, selectors, context) ==
  IF context = null
    THEN Throw("element.find is not a function")
    ELSE LET element == context.selection
             RECURSIVE Try(_)
             Try(k) ==
               IF k > Len(selectors) THEN find(d, element, selectors[1])
               ELSE LET result == first(find(d, element, selectors[k]))
                    IN IF Len(result) > 0 THEN result ELSE Try(k + 1)
         IN Return(Try(1))

Headings == <<Tag("h2"), Tag("h3"), Tag("h4")>>
Containers == <<Class("category-container"), Class("group-container")>>
TitleSelectors == << <<Tag("h1")>>, <<Class("entry-title")>>, <<Class("page-title")>> >>

\* const sportInfo = {...}; if (heroImage) sportInfo.heroImage = heroImage;  (253-264)
SportInfo(sport, d) ==
  LET found == extractWithFallbackSelectors(d, TitleSelectors, null)
      heroImage == Or(attr(d, first(Query(d, <<Inside(Tag("header"), "img"),
                                               Inside(Class("hero"), "img"),
                                               Inside(Class("featured-image"), "img")>>)),
                           "src"), "")
  IN IF found.threw THEN found
     ELSE LET info ==
                [name        |-> sport.name,
                 url         |-> sportUrl(sport),
                 title       |-> Or(trim(text(d, first(found.value))), sport.name),
                 description |-> trim(text(d, first(Query(d, <<Class("description"),
                                                               Class("intro"),
                                                               Class("summary")>>))))]
          IN Return(IF heroImage # "" THEN info @@ ("heroImage" :> heroImage) ELSE info)

\* a table cell that is pushed as a plain string (296)
Str(cellText) == [string |-> cellText]

\* $(row).find('th, td').each((k, cell) => {...})  (285-298)
ResultCell(d, cell) ==
  LET cellText == trim(text(d, <<cell>>))
      imgs == find(d, <<cell>>, <<Tag("img")>>)
  IN IF hasClass(d, <<cell>>, "winner") \/ attr(d, <<cell>>, "data-winner") = "true"
       THEN [text |-> cellText, isWinner |-> TRUE]
       ELSE IF Len(imgs) > 0
         THEN [text |-> cellText, imgSrc |-> Or(attr(d, imgs, "src"), "")]
         ELSE Str(cellText)

\* variant: the category is never put in front of the title
TableTitleNoCategory(d, table, i) ==
  Or(Or(trim(text(d, prev(d, <<table>>, Headings))),
        trim(text(d, find(d, <<table>>, <<Tag("caption")>>)))),
     "Resultados " \o ToString(i + 1))

\* let tableTitle = ...; const category = ...; if (category && ...)  (270-280)
TableTitle(d, table, i) ==
  LET tableTitle == Or(Or(trim(text(d, prev(d, <<table>>, Headings))),
                          trim(text(d, find(d, <<table>>, <<Tag("caption")>>)))),
                       "Resultados " \o ToString(i + 1))
      category == Or(trim(text(d, prev(d, <<table>>, <<Class("category"), Class("group"),
                                                       Class("division")>>))),
                     trim(text(d, first(find(d, closest(d, <<table>>, Containers),
                                             <<Tag("h3"), Tag("h4"), Class("title")>>)))))
  IN IF category # "" /\ ~includes(tableTitle, category)
       THEN category \o " - " \o tableTitle
       ELSE tableTitle

\* web-scraper.js, the minimal scraper:
\*   const tableTitle = $(table).prev('h2, h3, h4').text().trim() || `Table ${i+1}`;
MinimalTableTitle(d, table, i) ==
  Or(trim(text(d, prev(d, <<table>>, Headings))), "Table " \o ToString(i + 1))

\* variant: the first row of a table, its header, is not taken into the data
TableDataSkipsHeader(d, table) ==
  LET rows == find(d, <<table>>, <<Tag("tr")>>)
      body == IF rows = << >> THEN << >> ELSE Tail(rows)
      RowData(row) == LET cells == find(d, <<row>>, <<Tag("th"), Tag("td")>>)
                      IN [k \in 1..Len(cells) |-> ResultCell(d, cells[k])]
      HasCells(row) == Len(RowData(row)) > 0
      kept == SelectSeq(body, HasCells)
  IN [j \in 1..Len(kept) |-> RowData(kept[j])]

\* the rows of one table: rows without cells are left out (283-303)
TableData(d, table) ==
  LET rows == find(d, <<table>>, <<Tag("tr")>>)
      RowData(row) == LET cells == find(d, <<row>>, <<Tag("th"), Tag("td")>>)
                      IN [k \in 1..Len(cells) |-> ResultCell(d, cells[k])]
      HasCells(row) == Len(RowData(row)) > 0
      kept == SelectSeq(rows, HasCells)
  IN [j \in 1..Len(kept) |-> RowData(kept[j])]

\* const results = []; $('table, .table, .results-table').each((i, table) => {...})  (267-311)
Results(d) ==
  LET tables == Query(d, <<Tag("table"), Class("table"), Class("results-table")>>)
      Index(table) == CHOOSE i \in 1..Len(tables) : tables[i] = table
      HasData(table) == Len(TableData(d, table)) > 0
      kept == SelectSeq(tables, HasData)
  IN [n \in 1..Len(kept) |->
        [title |-> TableTitle(d, kept[n], Index(kept[n]) - 1),
         data  |-> TableData(d, kept[n])]]

\* the text properties of a match, in the order of the object literal
MatchTextKeys == <<"title", "score", "winner", "date", "time", "location", "category">>

\* const match = {...}  (316-326)
MatchCandidate(d, element) ==
  LET In(selector) == find(d, <<element>>, selector)
      teams == In(<<Class("team-name"), Class("team"), Class("participant"),
                    Class("competitor")>>)
  IN [title    |-> trim(text(d, first(In(<<Tag("h3"), Tag("h4"), Class("match-title"),
                                           Class("title")>>)))),
      teams    |-> [k \in 1..Len(teams) |-> trim(text(d, <<teams[k]>>))],
      score    |-> trim(text(d, In(<<Class("score"), Class("result"), Class("match-score")>>))),
      winner   |-> trim(text(d, In(<<Class("winner"), Class("champion")>>))),
      date     |-> trim(text(d, In(<<Class("date"), Class("match-date"), Tag("time"),
                                     Class("datetime")>>))),
      time     |-> trim(text(d, In(<<Class("time"), Class("match-time")>>))),
      location |-> trim(text(d, In(<<Class("venue"), Class("location"), Class("place")>>))),
      category |-> Or(trim(text(d, In(<<Class("category"), Class("division"),
                                        Class("group")>>))),
                      trim(text(d, first(find(d, closest(d, <<element>>, Containers),
                                              <<Tag("h3"), Class("category-title")>>)))))]

\* variant: no property is deleted, every key stays in the object
TruthyKeysAll(object, textKeys, arrayKeys) ==
  {textKeys[k] : k \in 1..Len(textKeys)} \cup {arrayKeys[k] : k \in 1..Len(arrayKeys)}

\* "Clean up empty properties": the keys left in an object after the delete loop
\* (329-333, 421-425); !value holds of '' and of no array
TruthyKeys(object, textKeys, arrayKeys) ==
  {textKeys[k] : k \in {j \in 1..Len(textKeys) : object[textKeys[j]] # ""}}
    \cup {arrayKeys[k] : k \in {j \in 1..Len(arrayKeys) : Len(object[arrayKeys[j]]) # 0}}

\* const matches = []; $('.match, .event, .fixture, .game, article').each(...)  (314-338)
\* if (Object.keys(match).length > 1) matches.push(match);
Matches(d) ==
  LET elements == Query(d, <<Class("match"), Class("event"), Class("fixture"),
                             Class("game"), Tag("article")>>)
      Keys(element) == TruthyKeys(MatchCandidate(d, element), MatchTextKeys, <<"teams">>)
      Kept(element) == Cardinality(Keys(element)) > 1
      kept == SelectSeq(elements, Kept)
  IN [n \in 1..Len(kept) |-> [key \in Keys(kept[n]) |-> MatchCandidate(d, kept[n])[key]]]

\* const team = {...}  (354-363)
Team(d, row) ==
  LET Td(n) == trim(text(d, find(d, <<row>>, <<NthChild("td", n)>>)))
  IN [position |-> Td(1),
      name     |-> Td(2),
      played   |-> Td(3),
      won      |-> Td(4),
      drawn    |-> Td(5),
      lost     |-> Td(6),
      points   |-> Or(Td(7), trim(text(d, last(find(d, <<row>>, <<Tag("td")>>)))))]

\* $(element).find('tr').each((j, row) => { if (j === 0) return; ... })  (351-369)
\* if (team.name && team.position) standingData.teams.push(team);
Teams(d, element) ==
  LET rows == find(d, <<element>>, <<Tag("tr")>>)
      body == IF rows = << >> THEN << >> ELSE Tail(rows)
      Kept(row) == Team(d, row).name # "" /\ Team(d, row).position # ""
      kept == SelectSeq(body, Kept)
  IN [n \in 1..Len(kept) |-> Team(d, kept[n])]

\* const standings = []; $('.standings, .ranking, ...').each((i, element) => {...})  (341-374)
Standings(d) ==
  LET elements == Query(d, <<Class("standings"), Class("ranking"), Class("leaderboard"),
                             Class("positions"), Class("table-standings")>>)
      Index(element) == CHOOSE i \in 1..Len(elements) : elements[i] = element
      Kept(element) == Len(Teams(d, element)) > 0
      kept == SelectSeq(elements, Kept)
      StandingData(element) ==
        [title    |-> Or(Or(trim(text(d, prev(d, <<element>>, Headings))),
                            trim(text(d, find(d, <<element>>,
                                              <<Tag("caption"), Class("table-title"),
                                                Class("standings-title")>>)))),
                         "Clasificación " \o ToString(Index(element))),
         category |-> trim(text(d, first(find(d, closest(d, <<element>>, Containers),
                                              <<Tag("h3"), Class("category-title")>>)))),
         teams    |-> Teams(d, element)]
  IN [n \in 1..Len(kept) |-> StandingData(kept[n])]

\* const medalItem = {...}  (387-396)
MedalItem(d, item) ==
  LET In(selector) == trim(text(d, find(d, <<item>>, selector)))
      Td(n) == In(<<NthChild("td", n)>>)
  IN [position |-> Or(In(<<Class("position"), Class("medal-type"), Class("rank")>>), Td(1)),
      name     |-> Or(In(<<Class("name"), Class("athlete"), Class("winner"),
                           Class("team-name")>>), Td(2)),
      school   |-> Or(In(<<Class("school"), Class("institution"), Class("team")>>), Td(3)),
      result   |-> Or(In(<<Class("result"), Class("mark"), Class("time"), Class("score")>>),
                      Td(4))]

\* const medals = []; $('.medals, .awards, .winners').each((i, element) => {...})  (377-407)
\* if (medalItem.name && medalItem.position) medalData.items.push(medalItem);
Medals(d) ==
  LET elements == Query(d, <<Class("medals"), Class("awards"), Class("winners")>>)
      Items(element) ==
        LET items == find(d, <<element>>, <<Tag("li"), Tag("tr"), Class("medal-item"),
                                            Class("award-item")>>)
            Kept(item) == MedalItem(d, item).name # "" /\ MedalItem(d, item).position # ""
            kept == SelectSeq(items, Kept)
        IN [n \in 1..Len(kept) |-> MedalItem(d, kept[n])]
      HasItems(element) == Len(Items(element)) > 0
      kept == SelectSeq(elements, HasItems)
      MedalData(element) ==
        [title |-> Or(Or(trim(text(d, prev(d, <<element>>, Headings))),
                         trim(text(d, find(d, <<element>>,
                                           <<Tag("caption"), Class("table-title")>>)))),
                      "Medallero"),
         items |-> Items(element)]
  IN [n \in 1..Len(kept) |-> MedalData(kept[n])]

NewsKeys == <<"title", "date", "content", "author", "imageUrl">>

\* const newsItem = {...}  (412-418)
NewsCandidate(d, element) ==
  LET In(selector) == trim(text(d, first(find(d, <<element>>, selector))))
  IN [title    |-> In(<<Tag("h2"), Tag("h3"), Class("title"), Class("news-title"),
                        Class("post-title")>>),
      date     |-> In(<<Class("date"), Class("posted-on"), Tag("time")>>),
      content  |-> In(<<Tag("p"), Class("content"), Class("excerpt")>>),
      author   |-> In(<<Class("author"), Class("byline")>>),
      imageUrl |-> Or(attr(d, first(find(d, <<element>>, <<Tag("img")>>)), "src"), "")]

\* const news = []; $('.news, .post, .update, article, .entry').each(...)  (410-430)
\* cleanup, then: if (newsItem.title || newsItem.content) news.push(newsItem);
News(d) ==
  LET elements == Query(d, <<Class("news"), Class("post"), Class("update"), Tag("article"),
                             Class("entry")>>)
      Keys(element) == TruthyKeys(NewsCandidate(d, element), NewsKeys, << >>)
      Kept(element) == "title" \in Keys(element) \/ "content" \in Keys(element)
      kept == SelectSeq(elements, Kept)
  IN [n \in 1..Len(kept) |-> [key \in Keys(kept[n]) |-> NewsCandidate(d, kept[n])[key]]]

\* const gallery = []; $('.gallery, .photos, .images').find('img').each(...)  (433-445)
Gallery(d) ==
  LET imgs == find(d, Query(d, <<Class("gallery"), Class("photos"), Class("images")>>),
                   <<Tag("img")>>)
      imgSrc(img) == Or(attr(d, <<img>>, "src"), "")
      imgTitle(img) == Or(Or(attr(d, <<img>>, "alt"), attr(d, <<img>>, "title")), "")
      Kept(img) == imgSrc(img) # ""
      kept == SelectSeq(imgs, Kept)
  IN [n \in 1..Len(kept) |->
        [url     |-> imgSrc(kept[n]),
         title   |-> imgTitle(kept[n]),
         caption |-> Or(trim(text(d, find(d, closest(d, <<kept[n]>>, <<Tag("figure")>>),
                                          <<Tag("figcaption")>>))), "")]]

Buckets == <<"results", "matches", "standings", "medals", "news", "gallery">>

\* the six arrays of a page (267-445)
PageBuckets(d) ==
  [results   |-> Results(d),
   matches   |-> Matches(d),
   standings |-> Standings(d),
   medals    |-> Medals(d),
   news      |-> News(d),
   gallery   |-> Gallery(d)]

\* variant: every bucket stays in sportData, the empty ones too
SportDataKeepsEmpty(sportInfo, buckets) ==
  ("sportInfo" :> sportInfo) @@ buckets

\* const sportData = {sportInfo, results, ...}; "Remove empty arrays"  (447-462)
SportData(sportInfo, buckets) ==
  LET kept == {b \in DOMAIN buckets : Len(buckets[b]) # 0}
  IN ("sportInfo" :> sportInfo) @@ [b \in kept |-> buckets[b]]

\* lines 253-462 as a whole: the sportData to save, or the error thrown on the way
ExtractSportData(sport, d) ==
  LET sportInfo == SportInfo(sport, d)
  IN IF sportInfo.threw THEN sportInfo
     ELSE Return(SportData(sportInfo.value, PageBuckets(d)))

-----------------------------------------------------------------------------
(* scrapeMainPage()                                                        *)

\* the record built from the document, lines 125-229
MainPageRecord(d) == [generalInfo |-> [title |-> trim(text(d, Query(d, <<Tag("title")>>)))]]

\* scrapeMainPage(): runs up to its first await, the fetch of CONFIG.baseUrl
scrapeMainPage ==
  /\ spc' = "fetch"
  /\ fetchWithRetry(baseUrl)

\* variant: scrapeMainPage without its try/catch, the fetch error reaches runScraper
ScrapeMainFetchedThrows ==
  /\ pc = "main" /\ spc = "fetch" /\ fetchDone
  /\ IF fpc = "returned"
       THEN /\ spc' = "debug"
            /\ UNCHANGED <<pc, runResult>>
       ELSE /\ spc' = "idle"
            /\ runResult' = [message |-> fresult.message]
            /\ pc' = "catch"
  /\ fpc' = "idle"
  /\ UNCHANGED <<furl, retries, fresult, caught, inflight, attempts, waits, fetched, failedFetches,
                 idx, mainPageData, sportsData, diskVars, cliVars, procVars>>
  /\ UNCHANGED <<extractVars, reportVars>>

\* const response = await fetchWithRetry(CONFIG.baseUrl); ... catch: return null
ScrapeMainFetched ==
  /\ pc = "main" /\ spc = "fetch" /\ fetchDone
  /\ IF fpc = "returned"
       THEN /\ spc' = "debug"
            /\ UNCHANGED <<pc, mainPageData>>
       ELSE /\ spc' = "idle"
            /\ mainPageData' = null
            /\ pc' = "mainDelay"
  /\ fpc' = "idle"
  /\ UNCHANGED <<furl, retries, fresult, caught, inflight, attempts, waits, fetched, failedFetches,
                 idx, sportsData, runResult, diskVars,
                 cliVars, procVars>>
  /\ UNCHANGED <<extractVars, reportVars>>

\* await saveHtmlForDebugging('main_page', html): a failure is logged, not thrown
ScrapeMainDebug ==
  /\ pc = "main" /\ spc = "debug"
  /\ \E ok \in BOOLEAN :
       IO(ok)
  /\ spc' = "save"
  /\ UNCHANGED <<fetchVars, pc, idx, mainPageData, sportsData, runResult, outDir, files, logFile,
                 cliVars, procVars>>
  /\ UNCHANGED <<extractVars, reportVars>>

\* await saveToFile('main_page.json', mainPageData); return mainPageData;
ScrapeMainSave ==
  /\ pc = "main" /\ spc = "save"
  /\ \E ok \in BOOLEAN :
       /\ IO(ok)
       /\ writeFile(ok, "main_page.json", MainPageRecord(Html(fresult.data)))
  /\ mainPageData' = MainPageRecord(Html(fresult.data))
  /\ spc' = "idle"
  /\ pc' = "mainDelay"
  /\ UNCHANGED <<fetchVars, idx, sportsData, runResult, outDir, logFile,
                 cliVars, procVars>>
  /\ UNCHANGED <<extractVars, reportVars>>

-----------------------------------------------------------------------------
(* scrapeSportPage(sport)                                                  *)

\* variant: the placeholder carries an (empty) results bucket next to sportInfo
ErrorPlaceholderWithResults(sport, error) ==
  ("sportInfo" :> [name |-> sport.name, url |-> sportUrl(sport), error |-> error.message])
    @@ ("results" :> << >>)

\* catch (error) { return { sportInfo: { name, url, error: error.message } }; }
ErrorPlaceholder(sport, error) ==
  "sportInfo" :> [name |-> sport.name, url |-> sportUrl(sport), error |-> error.message]

\* scrapeSportPage(sport): runs up to its first await, the fetch of sportUrl
scrapeSportPage(sport) ==
  /\ spc' = "fetch"
  /\ fetchWithRetry(sportUrl(sport))

\* variant: scrapeSportPage without its try/catch, the fetch error reaches runScraper
ScrapeSportFetchedThrows ==
  /\ pc = "sport" /\ spc = "fetch" /\ fetchDone
  /\ IF fpc = "returned"
       THEN /\ spc' = "debug"
            /\ UNCHANGED <<pc, runResult>>
       ELSE /\ spc' = "idle"
            /\ runResult' = [message |-> fresult.message]
            /\ pc' = "catch"
  /\ fpc' = "idle"
  /\ UNCHANGED <<furl, retries, fresult, caught, inflight, attempts, waits, fetched, failedFetches,
                 idx, mainPageData, sportsData, diskVars, cliVars, procVars>>
  /\ UNCHANGED <<extractVars, reportVars>>

\* const response = await fetchWithRetry(sportUrl); ... catch: return the placeholder
ScrapeSportFetched ==
  /\ pc = "sport" /\ spc = "fetch" /\ fetchDone
  /\ IF fpc = "returned"
       THEN /\ spc' = "debug"
            /\ UNCHANGED <<pc, sportsData>>
       ELSE /\ spc' = "idle"
            /\ sportsData' = sportsData @@ (SPORTS[idx].name :> ErrorPlaceholder(SPORTS[idx], fresult))
            /\ pc' = "sportDelay"
  /\ fpc' = "idle"
  /\ UNCHANGED <<furl, retries, fresult, caught, inflight, attempts, waits, fetched, failedFetches,
                 idx, mainPageData, runResult, diskVars,
                 cliVars, procVars>>
  /\ UNCHANGED <<extractVars, reportVars>>

\* await saveHtmlForDebugging(sport.name, html): a failure is logged, not thrown;
\* then lines 253-462 run up to the next await, saveToFile, unless they throw:
\* catch (error) { return the placeholder }
ScrapeSportDebug ==
  /\ pc = "sport" /\ spc = "debug"
  /\ \E ok \in BOOLEAN :
       IO(ok)
  /\ LET sportData == ExtractSportData(SPORTS[idx], Html(fresult.data)) IN
       IF sportData.threw
         THEN /\ sportsData' = sportsData @@
                                 (SPORTS[idx].name :> ErrorPlaceholder(SPORTS[idx], sportData.error))
              /\ spc' = "idle"
              /\ pc' = "sportDelay"
         ELSE /\ spc' = "save"
              /\ UNCHANGED <<pc, sportsData>>
  /\ UNCHANGED <<fetchVars, idx, mainPageData, runResult, outDir, files, logFile,
                 cliVars, procVars>>
  /\ UNCHANGED <<extractVars, reportVars>>

\* await saveToFile(filename, sportData); return sportData;
\* (not among the steps of a run: line 256 throws before this await is reached)
ScrapeSportSave ==
  /\ pc = "sport" /\ spc = "save"
  /\ \E ok \in BOOLEAN :
       /\ IO(ok)
       /\ writeFile(ok, SportFile(SPORTS[idx]),
                    ExtractSportData(SPORTS[idx], Html(fresult.data)).value)
  /\ sportsData' = sportsData @@
                     (SPORTS[idx].name :> ExtractSportData(SPORTS[idx], Html(fresult.data)).value)
  /\ spc' = "idle"
  /\ pc' = "sportDelay"
  /\ UNCHANGED <<fetchVars, idx, mainPageData, runResult, outDir, logFile,
                 cliVars, procVars>>
  /\ UNCHANGED <<extractVars, reportVars>>

-----------------------------------------------------------------------------
(* runScraper()                                                            *)

\* the names of the sports scraped so far, in insertion order (Object.keys)
ScrapedNames == [k \in 1..Cardinality(DOMAIN sportsData) |-> SPORTS[k].name]

\* sport?.<bucket>?.length || 0
BucketLength(sport, bucket) == IF bucket \in DOMAIN sport THEN Len(sport[bucket]) ELSE 0

\* one element of summary.sports
SummaryEntry(sportName, sport) ==
  [name          |-> sportName,
   resultsCount  |-> BucketLength(sport, "results"),
   matchesCount  |-> BucketLength(sport, "matches"),
   hasStandings  |-> BucketLength(sport, "standings") # 0,
   hasMedals     |-> BucketLength(sport, "medals") # 0,
   error         |-> IF "error" \in DOMAIN sport.sportInfo
                       THEN sport.sportInfo.error ELSE undefined]

\* const allData = { mainPage: mainPageData, sports: sportsData, metadata: {...} }
AllData ==
  [mainPage |-> mainPageData,
   sports   |-> sportsData,
   metadata |-> [version |-> "1.0.0",
                 sportsScraped |-> [k \in 1..Len(SPORTS) |-> SPORTS[k].name]]]

\* const summary = { eventTitle, lastUpdated, sports: Object.keys(sportsData).map(...) }
Summary ==
  [eventTitle |-> IF mainPageData # null /\ mainPageData.generalInfo.title # ""
                    THEN mainPageData.generalInfo.title
                    ELSE "Juegos Nacionales Salesianos 2025",
   sports     |-> [k \in 1..Len(ScrapedNames) |->
                     SummaryEntry(ScrapedNames[k], sportsData[ScrapedNames[k]])]]

\* runScraper(): runs up to its first await, ensureDirectoryExists(CONFIG.outputDir)
runScraper ==
  /\ pc' = "mkdir"
  /\ idx' = 0
  /\ mainPageData' = null
  /\ sportsData' = << >>
  /\ runResult' = null

\* await ensureDirectoryExists(CONFIG.outputDir)
RunEnsureDirectory ==
  /\ pc = "mkdir"
  /\ \E ok \in BOOLEAN :
       /\ IO(ok)
       /\ IF ok
            THEN /\ outDir' = TRUE
                 /\ pc' = "logStart"
                 /\ UNCHANGED runResult
            ELSE /\ UNCHANGED outDir
                 /\ pc' = "catch"
                 /\ runResult' = [message |-> "EACCES: mkdir"]
  /\ UNCHANGED <<fetchVars, spc, idx, mainPageData, sportsData, files, logFile,
                 cliVars, procVars>>
  /\ UNCHANGED <<extractVars, reportVars>>

\* variant: scrapeMainPage() is called without await, runScraper goes straight on to its delay
RunLogStartNoAwait ==
  /\ pc = "logStart"
  /\ \E ok \in BOOLEAN :
       /\ IO(ok)
       /\ appendLog(ok, "Scraping started")
       /\ IF ok
            THEN /\ pc' = "mainDelay"
                 /\ scrapeMainPage
                 /\ UNCHANGED runResult
            ELSE /\ pc' = "catch"
                 /\ runResult' = [message |-> "EIO: write scraping_log.txt"]
                 /\ UNCHANGED <<fpc, furl, retries, fresult, caught, inflight, attempts, fetched,
                                failedFetches, spc>>
  /\ UNCHANGED <<waits, idx, mainPageData, sportsData, outDir, files,
                 cliVars, procVars>>
  /\ UNCHANGED <<extractVars, reportVars>>

\* await writeFileAsync(logFile, logEntry, { flag: 'a' }); then scrapeMainPage() is called
RunLogStart ==
  /\ pc = "logStart"
  /\ \E ok \in BOOLEAN :
       /\ IO(ok)
       /\ appendLog(ok, "Scraping started")
       /\ IF ok
            THEN /\ pc' = "main"
                 /\ scrapeMainPage
                 /\ UNCHANGED runResult
            ELSE /\ pc' = "catch"
                 /\ runResult' = [message |-> "EIO: write scraping_log.txt"]
                 /\ UNCHANGED <<fpc, furl, retries, fresult, caught, inflight, attempts, fetched,
                            failedFetches, spc>>
  /\ UNCHANGED <<waits, idx, mainPageData, sportsData, outDir, files,
                 cliVars, procVars>>
  /\ UNCHANGED <<extractVars, reportVars>>

\* await delay(CONFIG.requestDelay); the loop calls scrapeSportPage for the first sport
RunMainDelay ==
  /\ pc = "mainDelay"
  /\ delay(requestDelay)
  /\ idx' = 1
  /\ pc' = "sport"
  /\ scrapeSportPage(SPORTS[1])
  /\ UNCHANGED <<mainPageData, sportsData, runResult, diskVars,
                 cliVars, procVars>>
  /\ UNCHANGED <<extractVars, reportVars>>

\* variant: the pacing delay is skipped after a sport whose fetch failed
RunSportDelayOnlyAfterSuccess ==
  /\ pc = "sportDelay"
  /\ IF "error" \in DOMAIN sportsData[SPORTS[idx].name].sportInfo
       THEN UNCHANGED waits
       ELSE delay(requestDelay)
  /\ IF idx < Len(SPORTS)
       THEN /\ idx' = idx + 1
            /\ pc' = "sport"
            /\ scrapeSportPage(SPORTS[idx + 1])
       ELSE /\ pc' = "saveAll"
            /\ UNCHANGED <<fpc, furl, retries, fresult, caught, inflight, attempts, fetched,
                            failedFetches, spc, idx>>
  /\ UNCHANGED <<mainPageData, sportsData, runResult, diskVars,
                 cliVars, procVars>>
  /\ UNCHANGED <<extractVars, reportVars>>

\* await delay(CONFIG.requestDelay); next sport, or after the loop saveToFile('all_data.json')
RunSportDelay ==
  /\ pc = "sportDelay"
  /\ delay(requestDelay)
  /\ IF idx < Len(SPORTS)
       THEN /\ idx' = idx + 1
            /\ pc' = "sport"
            /\ scrapeSportPage(SPORTS[idx + 1])
       ELSE /\ pc' = "saveAll"
            /\ UNCHANGED <<fpc, furl, retries, fresult, caught, inflight, attempts, fetched,
                            failedFetches, spc, idx>>
  /\ UNCHANGED <<mainPageData, sportsData, runResult, diskVars,
                 cliVars, procVars>>
  /\ UNCHANGED <<extractVars, reportVars>>

\* variant: a failed write of all_data.json is thrown into runScraper's catch
RunSaveAllThrows ==
  /\ pc = "saveAll"
  /\ \E ok \in BOOLEAN :
       /\ IO(ok)
       /\ writeFile(ok, "all_data.json", AllData)
       /\ IF ok
            THEN /\ pc' = "saveSummary"
                 /\ UNCHANGED runResult
            ELSE /\ pc' = "catch"
                 /\ runResult' = [message |-> "EIO: write all_data.json"]
  /\ UNCHANGED <<fetchVars, spc, idx, mainPageData, sportsData, outDir, logFile,
                 cliVars, procVars>>
  /\ UNCHANGED <<extractVars, reportVars>>

\* await saveToFile('all_data.json', allData)
RunSaveAll ==
  /\ pc = "saveAll"
  /\ \E ok \in BOOLEAN :
       /\ IO(ok)
       /\ writeFile(ok, "all_data.json", AllData)
  /\ pc' = "saveSummary"
  /\ UNCHANGED <<fetchVars, spc, idx, mainPageData, sportsData, runResult, outDir, logFile,
                 cliVars, procVars>>
  /\ UNCHANGED <<extractVars, reportVars>>

\* await saveToFile('summary.json', summary)
RunSaveSummary ==
  /\ pc = "saveSummary"
  /\ \E ok \in BOOLEAN :
       /\ IO(ok)
       /\ writeFile(ok, "summary.json", Summary)
  /\ pc' = "logDone"
  /\ UNCHANGED <<fetchVars, spc, idx, mainPageData, sportsData, runResult, outDir, logFile,
                 cliVars, procVars>>
  /\ UNCHANGED <<extractVars, reportVars>>

\* await writeFileAsync(logFile, completionLog, { flag: 'a' }); return summary;
RunLogDone ==
  /\ pc = "logDone"
  /\ \E ok \in BOOLEAN :
       /\ IO(ok)
       /\ appendLog(ok, "Scraping completed")
       /\ IF ok
            THEN /\ pc' = "returned"
                 /\ runResult' = Summary
            ELSE /\ pc' = "catch"
                 /\ runResult' = [message |-> "EIO: write scraping_log.txt"]
  /\ UNCHANGED <<fetchVars, spc, idx, mainPageData, sportsData, outDir, files,
                 cliVars, procVars>>
  /\ UNCHANGED <<extractVars, reportVars>>

\* catch (error) { await writeFileAsync(logFile, errorLog, { flag: 'a' }); throw error; }
\* a write into a directory that does not exist fails
RunCatch ==
  /\ pc = "catch"
  /\ \E ok \in BOOLEAN :
       /\ IF outDir THEN IO(ok) ELSE ~ok /\ UNCHANGED ioFaults
       /\ appendLog(ok, "ERROR " \o runResult.message)
       /\ runResult' = IF ok THEN runResult ELSE [message |-> "ENOENT: write scraping_log.txt"]
  /\ pc' = "thrown"
  /\ UNCHANGED <<fetchVars, spc, idx, mainPageData, sportsData, outDir, files,
                 cliVars, procVars>>
  /\ UNCHANGED <<extractVars, reportVars>>

ScrapeStep ==
  \/ ScrapeMainFetched \/ ScrapeMainDebug \/ ScrapeMainSave
  \/ ScrapeSportFetched \/ ScrapeSportDebug

RunStep ==
  \/ RunEnsureDirectory \/ RunLogStart \/ RunMainDelay \/ RunSportDelay
  \/ RunSaveAll \/ RunSaveSummary \/ RunLogDone \/ RunCatch

runDone == pc \in {"returned", "thrown"}

-----------------------------------------------------------------------------
(* data-processor.js: processAllSportsData()                                *)

\* the report page of one sport: `${sportFileName}.html`
ReportPage(sportName) == FileStem(sportName) \o ".html"

\* processAllSportsData(): runs up to its first await, ensureDirectoryExists(CONFIG.reportsDir)
processAllSportsData ==
  /\ ppc' = "mkdir"
  /\ pidx' = 0
  /\ processed' = "none"
  /\ perror' = null
  /\ UNCHANGED reports

\* await ensureDirectoryExists(CONFIG.reportsDir); catch (error) { return false; }
ProcessEnsureDirectory ==
  /\ ppc = "mkdir"
  /\ \E ok \in BOOLEAN :
       /\ IO(ok)
       /\ IF ok
            THEN ppc' = "load" /\ UNCHANGED <<processed, perror>>
            ELSE /\ ppc' = "returned" /\ processed' = "false"
                 /\ perror' = [message |-> "EACCES: mkdir"]
  /\ UNCHANGED <<fetchVars, runVars, outDir, files, logFile, cliVars, pidx, reports>>
  /\ UNCHANGED <<extractVars, reportVars>>

\* const allData = await loadJsonFile('all_data.json'); if (!allData) throw ...
\* loadJsonFile returns null when the file is missing or cannot be read
\* catch (error) { console.error('Error processing data:', error); return false; }
ProcessLoad ==
  /\ ppc = "load"
  /\ \E ok \in BOOLEAN :
       /\ IF files["all_data.json"] # absent THEN IO(ok) ELSE ~ok /\ UNCHANGED ioFaults
       /\ IF ok
            THEN ppc' = "index" /\ UNCHANGED <<processed, perror>>
            ELSE /\ ppc' = "returned" /\ processed' = "false"
                 /\ perror' = [message |-> "Failed to load all_data.json file"]
  /\ UNCHANGED <<fetchVars, runVars, outDir, files, logFile, cliVars, pidx, reports>>
  /\ UNCHANGED <<extractVars, reportVars>>

\* await writeFileAsync(path.join(CONFIG.reportsDir, 'index.html'), indexHTML)
ProcessIndex ==
  /\ ppc = "index"
  /\ \E ok \in BOOLEAN :
       /\ IO(ok)
       /\ IF ok
            THEN /\ reports' = reports \cup {"index.html"}
                 /\ ppc' = "sports"
                 /\ pidx' = 1
                 /\ UNCHANGED <<processed, perror>>
            ELSE /\ ppc' = "returned"
                 /\ processed' = "false"
                 /\ perror' = [message |-> "EIO: write index.html"]
                 /\ UNCHANGED <<reports, pidx>>
  /\ UNCHANGED <<fetchVars, runVars, outDir, files, logFile, cliVars>>
  /\ UNCHANGED <<extractVars, reportVars>>

\* for (const sportName in allData.sports) { ... await writeFileAsync(...) ... } return true;
\* the CSV files and the page of one sport are written in one step
ProcessSport ==
  /\ ppc = "sports"
  /\ LET names == [k \in 1..Len(SPORTS) |-> SPORTS[k].name] IN
     \E ok \in BOOLEAN :
       /\ IO(ok)
       /\ IF ok
            THEN /\ reports' = reports \cup {ReportPage(names[pidx])}
                 /\ IF pidx < Cardinality(DOMAIN files["all_data.json"].sports)
                      THEN pidx' = pidx + 1 /\ UNCHANGED <<ppc, processed>>
                      ELSE ppc' = "returned" /\ processed' = "true" /\ UNCHANGED pidx
                 /\ UNCHANGED perror
            ELSE /\ ppc' = "returned"
                 /\ processed' = "false"
                 /\ perror' = [message |-> "EIO: write report"]
                 /\ UNCHANGED <<reports, pidx>>
  /\ UNCHANGED <<fetchVars, runVars, outDir, files, logFile, cliVars>>
  /\ UNCHANGED <<extractVars, reportVars>>

ProcessStep == ProcessEnsureDirectory \/ ProcessLoad \/ ProcessIndex \/ ProcessSport

-----------------------------------------------------------------------------
(* data-processor.js run directly: runScraperAndProcessData()               *)

\* const summary = await scraper.runScraper();
runScraperAndProcessData ==
  /\ cpc' = "runScraperAndProcessData"
  /\ runScraper

StartDataProcessor ==
  /\ script = "data-processor" /\ cpc = "start"
  /\ runScraperAndProcessData
  /\ UNCHANGED <<fetchVars, spc, diskVars, script, argv, scrapeSuccess, processSuccess,
                 cmdResult, exitCode, procVars>>
  /\ UNCHANGED <<extractVars, reportVars>>

\* catch (error) { return { success: false, ... } }  ->  process.exit(1)
\* otherwise: const processed = await processAllSportsData();
RunScraperAndProcessDataScraped ==
  /\ cpc = "runScraperAndProcessData" /\ runDone /\ ppc = "idle"
  /\ IF pc = "thrown"
       THEN /\ cmdResult' = "false"
            /\ exitCode' = 1
            /\ cpc' = "exited"
            /\ UNCHANGED procVars
       ELSE /\ processAllSportsData
            /\ UNCHANGED <<cmdResult, exitCode, cpc>>
  /\ UNCHANGED <<fetchVars, runVars, diskVars, script, argv, scrapeSuccess, processSuccess>>
  /\ UNCHANGED <<extractVars, reportVars>>

\* if (processed) {...}  return { success: true };  ->  process.exit(0)
RunScraperAndProcessDataProcessed ==
  /\ cpc = "runScraperAndProcessData" /\ ppc = "returned"
  /\ cmdResult' = "true"
  /\ exitCode' = 0
  /\ cpc' = "exited"
  /\ UNCHANGED <<fetchVars, runVars, diskVars, script, argv, scrapeSuccess, processSuccess, procVars>>
  /\ UNCHANGED <<extractVars, reportVars>>

-----------------------------------------------------------------------------
(* The CLI script: startCLI() with a command on argv                        *)

Commands == {"scrape", "process", "both", "help", "exit", "status"}

\* checkDataExists(): CONFIG.dataDir exists and holds a .json file
checkDataExists == outDir /\ \E f \in JsonFiles : files[f] # absent

\* runScraperCommand(): await runScraper()
runScraperCommand ==
  /\ cpc' = "runScraperCommand"
  /\ runScraper

\* processDataCommand(): if (!checkDataExists()) return false; await processAllSportsData();
processDataCommand ==
  IF checkDataExists
    THEN /\ cpc' = "processDataCommand"
         /\ processAllSportsData
         /\ UNCHANGED <<processSuccess, cmdResult>>
    ELSE /\ processSuccess' = "false"
         /\ cmdResult' = "false"
         /\ cpc' = "closing"
         /\ UNCHANGED procVars

\* processCommand: case COMMANDS.SCRAPE / COMMANDS.BOTH, both start with runScraperCommand()
CLIScrape ==
  /\ script = "cli" /\ cpc = "start" /\ argv \in {"scrape", "both"}
  /\ runScraperCommand
  /\ UNCHANGED <<fetchVars, spc, diskVars, script, argv, scrapeSuccess, processSuccess,
                 cmdResult, exitCode, procVars>>
  /\ UNCHANGED <<extractVars, reportVars>>

\* processCommand: case COMMANDS.PROCESS
CLIProcess ==
  /\ script = "cli" /\ cpc = "start" /\ argv = "process"
  /\ processDataCommand
  /\ UNCHANGED <<fetchVars, runVars, diskVars, script, argv, scrapeSuccess, exitCode>>
  /\ UNCHANGED <<extractVars, reportVars>>

\* processCommand: case COMMANDS.HELP: displayHelp(); return true;
CLIHelp ==
  /\ script = "cli" /\ cpc = "start" /\ argv = "help"
  /\ cmdResult' = "true"
  /\ cpc' = "closing"
  /\ UNCHANGED <<fetchVars, runVars, diskVars, script, argv, scrapeSuccess, processSuccess,
                 exitCode, procVars>>
  /\ UNCHANGED <<extractVars, reportVars>>

\* processCommand: case COMMANDS.EXIT: rl.close(); process.exit(0);
CLIExit ==
  /\ script = "cli" /\ cpc = "start" /\ argv = "exit"
  /\ exitCode' = 0
  /\ cpc' = "exited"
  /\ UNCHANGED <<fetchVars, runVars, diskVars, script, argv, scrapeSuccess, processSuccess,
                 cmdResult, procVars>>
  /\ UNCHANGED <<extractVars, reportVars>>

\* processCommand: default: return false;
CLIUnknown ==
  /\ script = "cli" /\ cpc = "start" /\ argv \notin {"scrape", "process", "both", "help", "exit"}
  /\ cmdResult' = "false"
  /\ cpc' = "closing"
  /\ UNCHANGED <<fetchVars, runVars, diskVars, script, argv, scrapeSuccess, processSuccess,
                 exitCode, procVars>>
  /\ UNCHANGED <<extractVars, reportVars>>

\* runScraperCommand: try { await runScraper(); return true; } catch (error) { return false; }
RunScraperCommandResult == IF pc = "returned" THEN "true" ELSE "false"

\* case COMMANDS.SCRAPE: return await runScraperCommand();
RunScraperCommandDone ==
  /\ cpc = "runScraperCommand" /\ argv = "scrape" /\ runDone
  /\ scrapeSuccess' = RunScraperCommandResult
  /\ cmdResult' = RunScraperCommandResult
  /\ cpc' = "closing"
  /\ UNCHANGED <<fetchVars, runVars, diskVars, script, argv, processSuccess, exitCode, procVars>>
  /\ UNCHANGED <<extractVars, reportVars>>

\* variant: runBothCommand goes on to processDataCommand() whatever runScraperCommand returned
RunBothScrapedAlwaysProcesses ==
  /\ cpc = "runScraperCommand" /\ argv = "both" /\ runDone
  /\ scrapeSuccess' = RunScraperCommandResult
  /\ processDataCommand
  /\ UNCHANGED <<fetchVars, runVars, diskVars, script, argv, exitCode>>
  /\ UNCHANGED <<extractVars, reportVars>>

\* runBothCommand: const scrapeSuccess = await runScraperCommand();
\*                 if (!scrapeSuccess) return false;  ...  await processDataCommand();
RunBothScraped ==
  /\ cpc = "runScraperCommand" /\ argv = "both" /\ runDone
  /\ scrapeSuccess' = RunScraperCommandResult
  /\ IF RunScraperCommandResult = "false"
       THEN /\ cmdResult' = "false"
            /\ cpc' = "closing"
            /\ UNCHANGED <<processSuccess, procVars>>
       ELSE processDataCommand
  /\ UNCHANGED <<fetchVars, runVars, diskVars, script, argv, exitCode>>
  /\ UNCHANGED <<extractVars, reportVars>>

\* processDataCommand: try { await processAllSportsData(); ... return true; }
\* runBothCommand: if (!processSuccess) return false; return true;
ProcessDataCommandDone ==
  /\ cpc = "processDataCommand" /\ ppc = "returned"
  /\ processSuccess' = "true"
  /\ cmdResult' = "true"
  /\ cpc' = "closing"
  /\ UNCHANGED <<fetchVars, runVars, diskVars, script, argv, scrapeSuccess, exitCode, procVars>>
  /\ UNCHANGED <<extractVars, reportVars>>

\* startCLI: await processCommand(args[0]); rl.close(); return;
\* nothing is left to run and node exits with the default code
CLIClose ==
  /\ cpc = "closing"
  /\ exitCode' = 0
  /\ cpc' = "exited"
  /\ UNCHANGED <<fetchVars, runVars, diskVars, script, argv, scrapeSuccess, processSuccess,
                 cmdResult, procVars>>
  /\ UNCHANGED <<extractVars, reportVars>>

CLIStep ==
  \/ CLIScrape \/ CLIProcess \/ CLIHelp \/ CLIExit \/ CLIUnknown
  \/ RunScraperCommandDone \/ RunBothScraped \/ ProcessDataCommandDone \/ CLIClose

DataProcessorStep ==
  \/ StartDataProcessor \/ RunScraperAndProcessDataScraped \/ RunScraperAndProcessDataProcessed

-----------------------------------------------------------------------------
(* The report functions of the data processor (web-scraper.js 248-363).    *)
(* The values of the loaded JSON are records: Str(text), null,             *)
(* [array |-> elements], [object |-> fields]; noValue is undefined, the    *)
(* value of a property an object does not have and of an argument that is  *)
(* not passed.                                                              *)

noValue == [undefined |-> TRUE]
Arr(elements) == [array |-> elements]
Obj(fields) == [object |-> fields]

\* Array.isArray(value), and typeof value === 'object' of a value other than null
IsArray(value) == "array" \in DOMAIN value
IsObject(value) == "array" \in DOMAIN value \/ "object" \in DOMAIN value

\* the order in which scrapeSportPage writes the properties of a match
\* (enhanced-scraper.js 316-325): delete and the JSON file keep it
MatchKeyOrder ==
  <<"title", "teams", "score", "winner", "date", "time", "location", "category">>

\* Object.keys(object)
ObjectKeys(object) ==
  LET Own(key) == key \in DOMAIN object.object
  IN SelectSeq(MatchKeyOrder, Own)

\* object[key]
Get(object, key) ==
  IF key \in DOMAIN object.object THEN object.object[key] ELSE noValue

\* Array.prototype.join(separator) of strings
RECURSIVE join(_, _)
join(strings, separator) ==
  IF strings = << >> THEN ""
  ELSE IF Len(strings) = 1 THEN strings[1]
  ELSE strings[1] \o separator \o join(Tail(strings), separator)

\* str.replace(/c/g, by) for one character c
RECURSIVE replaceAll(_, _, _)
replaceAll(str, c, by) ==
  IF str = "" THEN ""
  ELSE (IF SubSeq(str, 1, 1) = c THEN by ELSE SubSeq(str, 1, 1))
         \o replaceAll(SubSeq(str, 2, Len(str)), c, by)

\* JSON.stringify(value)
RECURSIVE JSONstringify(_)
JSONstringify(value) ==
  IF value = null THEN "null"
  ELSE IF "string" \in DOMAIN value
    THEN "\"" \o replaceAll(replaceAll(replaceAll(value.string, "\\", "\\\\"),
                                       "\"", "\\\""), "\n", "\\n") \o "\""
  ELSE IF IsArray(value)
    THEN "[" \o join([k \in 1..Len(value.array) |-> JSONstringify(value.array[k])], ",") \o "]"
  ELSE LET keys == ObjectKeys(value)
       IN "{" \o join([k \in 1..Len(keys) |->
                         "\"" \o keys[k] \o "\":" \o JSONstringify(value.object[keys[k]])], ",")
              \o "}"

\* String(value) after `if (typeof value === 'object') value = JSON.stringify(value)`
StringOf(value) ==
  IF "string" \in DOMAIN value THEN value.string ELSE JSONstringify(value)

\* variant: the value is wrapped in quotes and its own quotes are left single
formatCSVValueSingleQuotes(value) ==
  IF value = null \/ value = noValue THEN ""
  ELSE LET stringValue == StringOf(value)
       IN IF includes(stringValue, ",") \/ includes(stringValue, "\"")
               \/ includes(stringValue, "\n")
            THEN "\"" \o stringValue \o "\""
            ELSE stringValue

\* function formatCSVValue(value)  (web-scraper.js 278-296)
formatCSVValue(value) ==
  IF value = null \/ value = noValue THEN ""
  ELSE LET stringValue == StringOf(value)
       IN IF includes(stringValue, ",") \/ includes(stringValue, "\"")
               \/ includes(stringValue, "\n")
            THEN "\"" \o replaceAll(stringValue, "\"", "\"\"") \o "\""
            ELSE stringValue

\* data.forEach(row => {...}) of convertToCSV from row k on (253-272): headers
\* and csv are the two variables of the loop
RECURSIVE csvRows(_, _, _, _)
csvRows(data, k, headers, csv) ==
  IF k > Len(data) THEN csv
  ELSE IF IsArray(data[k])
    THEN csvRows(data, k + 1, headers,
                 csv \o join([n \in 1..Len(data[k].array) |->
                                formatCSVValue(data[k].array[n])], ",") \o "\n")
  ELSE LET keys == IF headers \in {null, noValue} THEN Arr(ObjectKeys(data[k])) ELSE headers
           head == IF headers \in {null, noValue} THEN join(keys.array, ",") \o "\n" ELSE csv
       IN csvRows(data, k + 1, keys,
                  head \o join([n \in 1..Len(keys.array) |->
                                  formatCSVValue(Get(data[k], keys.array[n]))], ",") \o "\n")

\* function convertToCSV(data, headers)  (248-275)
convertToCSV(data, headers) ==
  IF data = << >> THEN ""
  ELSE csvRows(data, 1, headers,
               IF headers \in {null, noValue} THEN "" ELSE join(headers.array, ",") \o "\n")

\* variant: the apostrophe is left as it is
formatHTMLValueFourEntities(value) ==
  IF value = null \/ value = noValue THEN ""
  ELSE replaceAll(replaceAll(replaceAll(replaceAll(StringOf(value),
         "&", "&amp;"), "<", "&lt;"), ">", "&gt;"), "\"", "&quot;")

\* function formatHTMLValue(value)  (348-363)
formatHTMLValue(value) ==
  IF value = null \/ value = noValue THEN ""
  ELSE replaceAll(replaceAll(replaceAll(replaceAll(replaceAll(StringOf(value),
         "&", "&amp;"), "<", "&lt;"), ">", "&gt;"), "\"", "&quot;"), "'", "&#039;")

\* variant: a record is shown under its own keys
htmlRowOwnKeys(row, headers) ==
  "<tr>"
  \o (IF IsArray(row)
        THEN join([n \in 1..Len(row.array) |->
                     "<td>" \o formatHTMLValue(row.array[n]) \o "</td>"], "")
        ELSE join([n \in 1..Len(ObjectKeys(row)) |->
                     "<td>" \o formatHTMLValue(Get(row, ObjectKeys(row)[n])) \o "</td>"], ""))
  \o "</tr>"

\* the row of one element of data (325-340)
htmlRow(row, headers) ==
  "<tr>"
  \o (IF IsArray(row)
        THEN join([n \in 1..Len(row.array) |->
                     "<td>" \o formatHTMLValue(row.array[n]) \o "</td>"], "")
        ELSE join([n \in 1..Len(headers.array) |->
                     "<td>" \o formatHTMLValue(Get(row, headers.array[n])) \o "</td>"], ""))
  \o "</tr>"

\* the opening of the fragment (304-308)
TableOpening(title) ==
  "\n    <div class=\"table-container\">\n      <h3>" \o title \o "</h3>\n"
  \o "      <table border=\"1\" cellpadding=\"5\" cellspacing=\"0\">\n  "

\* function convertToHTMLTable(data, title, headers)  (299-345)
convertToHTMLTable(data, title, headers) ==
  IF data = << >> THEN "<p>No data available for " \o title \o "</p>"
  ELSE LET columns == IF headers \in {null, noValue} /\ ~IsArray(data[1])
                        THEN Arr(ObjectKeys(data[1])) ELSE headers
       IN TableOpening(title)
          \o (IF columns \in {null, noValue} THEN ""
              ELSE "<thead><tr>"
                   \o join([n \in 1..Len(columns.array) |->
                              "<th>" \o columns.array[n] \o "</th>"], "")
                   \o "</tr></thead>")
          \o "<tbody>"
          \o join([k \in 1..Len(data) |-> htmlRow(data[k], columns)], "")
          \o "</tbody></table></div>"

-----------------------------------------------------------------------------
(* fetchWithRetry on its own: any page url, called again once it settled   *)

InitFetchVars ==
  /\ fpc = "idle"
  /\ furl = ""
  /\ retries = 0
  /\ fresult = null
  /\ caught = null
  /\ inflight = 0
  /\ attempts = <<>>
  /\ waits = <<>>
  /\ fetched = <<>>
  /\ failedFetches = {}

FetchCaller ==
  /\ fpc = "idle"
  /\ \E url \in PageUrls : fetchWithRetry(url)
  /\ UNCHANGED <<waits, runVars, diskVars, cliVars, procVars>>
  /\ UNCHANGED <<extractVars, reportVars>>

FetchSettled ==
  /\ fetchDone
  /\ fpc' = "idle"
  /\ furl' = ""
  /\ retries' = 0
  /\ fresult' = null
  /\ attempts' = <<>>
  /\ fetched' = <<>>
  /\ failedFetches' = {}
  /\ UNCHANGED <<caught, inflight, waits, runVars, diskVars, cliVars, procVars>>
  /\ UNCHANGED <<extractVars, reportVars>>

InitRunVars ==
  /\ pc = "idle"
  /\ spc = "idle"
  /\ idx = 0
  /\ mainPageData = null
  /\ sportsData = << >>
  /\ runResult = null

InitDisk ==
  /\ outDir = FALSE
  /\ files = [f \in FileNames |-> absent]
  /\ logFile = << >>
  /\ ioFaults = 0

InitIdleCLI ==
  /\ script = "none"
  /\ argv = ""
  /\ cpc = "idle"
  /\ scrapeSuccess = "none"
  /\ processSuccess = "none"
  /\ cmdResult = "none"
  /\ exitCode = -1
  /\ ppc = "idle"
  /\ pidx = 0
  /\ processed = "none"
  /\ perror = null
  /\ reports = {}

\* no document is being looked at
InitNoDocument ==
  /\ dom = null
  /\ extracted = null

\* no report function is running
InitNoReport ==
  /\ input = null
  /\ report = null

InitFetch ==
  InitFetchVars /\ InitRunVars /\ InitDisk /\ InitIdleCLI /\ InitNoDocument /\ InitNoReport
NextFetch == FetchCaller \/ FetchGetResolves \/ FetchGetRejects(ErrorKinds) \/ FetchRetry \/ FetchSettled
SpecFetch == InitFetch /\ [][NextFetch]_vars
\* the event loop runs every settled promise's continuation and every due timer
FairSpecFetch == SpecFetch /\ WF_vars(FetchStep)


-----------------------------------------------------------------------------
(* A node process: the CLI script with one command, or data-processor.js    *)

InitCLI ==
  /\ script \in {"cli", "data-processor"}
  /\ argv \in (IF script = "cli" THEN Commands ELSE {""})
  /\ cpc = "start"
  /\ scrapeSuccess = "none"
  /\ processSuccess = "none"
  /\ cmdResult = "none"
  /\ exitCode = -1
  /\ ppc = "idle"
  /\ pidx = 0
  /\ processed = "none"
  /\ perror = null
  /\ reports = {}

Init == InitFetchVars /\ InitRunVars /\ InitDisk /\ InitCLI /\ InitNoDocument /\ InitNoReport
Next ==
  \/ CLIStep \/ DataProcessorStep \/ RunStep \/ ScrapeStep \/ ProcessStep
  \/ FetchGetResolves \/ FetchGetRejects(RunErrorKinds) \/ FetchRetry
Spec == Init /\ [][Next]_vars

-----------------------------------------------------------------------------
(* The extraction on its own: any document of Documents, and the code of    *)
(* scrapeSportPage between its awaits applied to it, as a whole and part by *)
(* part                                                                     *)

InitExtract ==
  /\ InitFetchVars /\ InitRunVars /\ InitDisk /\ InitIdleCLI /\ InitNoReport
  /\ dom \in Documents
  /\ extracted = null

Idle == UNCHANGED <<fetchVars, runVars, diskVars, cliVars, procVars, dom, reportVars>>

\* the whole document as a selection: $.root()
Root == << << >> >>

\* the selector lists extractWithFallbackSelectors is given
SelectorLists ==
  {TitleSelectors,
   << <<Class("page-title")>>, <<Class("entry-title")>>, <<Tag("h1")>> >>,
   << <<Class("entry-title"), Class("page-title")>>, <<Tag("h1")>> >>,
   << <<Tag("h5")>>, <<Class("subtitle")>> >>}

\* extractWithFallbackSelectors($, selectors) and ($, selectors, context)
ExtractWithFallback ==
  /\ extracted = null
  /\ \E selectors \in SelectorLists, context \in {null, Cheerio(Root)} :
       extracted' = [block     |-> "fallback",
                     selectors |-> selectors,
                     context   |-> context,
                     result    |-> extractWithFallbackSelectors(dom, selectors, context)]
  /\ Idle

\* lines 253-462 run on the document of a sport
ExtractPage ==
  /\ extracted = null
  /\ \E k \in 1..Len(SPORTS) :
       extracted' = [block  |-> "page",
                     sport  |-> SPORTS[k],
                     result |-> ExtractSportData(SPORTS[k], dom)]
  /\ Idle

\* web-scraper.js 107-109: $('table').each((i, table) => { const tableTitle = ... })
ExtractMinimalTitles ==
  /\ extracted = null
  /\ LET tables == Query(dom, <<Tag("table")>>)
     IN extracted' = [block  |-> "minimal",
                      titles |-> [i \in 1..Len(tables) |->
                                    MinimalTableTitle(dom, tables[i], i - 1)]]
  /\ Idle

\* lines 267-445: the six arrays made from the document
ExtractBuckets ==
  /\ extracted = null
  /\ extracted' = [block |-> "buckets", buckets |-> PageBuckets(dom)]
  /\ Idle

\* lines 447-462 on the six arrays and a sportInfo
AssembleSportData ==
  /\ extracted # null
  /\ extracted.block = "buckets"
  /\ \E k \in 1..Len(SPORTS) :
       LET sportInfo == [name        |-> SPORTS[k].name,
                         url         |-> sportUrl(SPORTS[k]),
                         title       |-> SPORTS[k].name,
                         description |-> ""]
       IN extracted' = [block   |-> "sportData",
                        buckets |-> extracted.buckets,
                        result  |-> SportData(sportInfo, extracted.buckets)]
  /\ Idle

NextExtract ==
  \/ ExtractWithFallback \/ ExtractPage \/ ExtractBuckets \/ AssembleSportData
  \/ ExtractMinimalTitles
SpecExtract == InitExtract /\ [][NextExtract]_vars

-----------------------------------------------------------------------------
(* The report functions on their own: a table of the loaded JSON, rendered *)
(* as processAllSportsData renders it                                       *)

MaxLen == 3
MaxMatches == 2

\* the characters the two formats treat specially, and one they do not
CSVAlphabet == {"a", ",", "\"", "\n"}
HTMLAlphabet == {"a", "<", ">", "&", "\"", "'"}

RECURSIVE Strings(_, _)
Strings(alphabet, n) ==
  IF n = 0 THEN {""}
  ELSE LET shorter == Strings(alphabet, n - 1)
       IN shorter \cup {s \o c : s \in shorter, c \in alphabet}

CellTexts == Strings(CSVAlphabet, MaxLen) \cup Strings(HTMLAlphabet, MaxLen)

TableTitles == {"Standings", "Sub-15 <i>A</i>"}

\* result.data of a results table: the header row and one row of cells
\* (enhanced-scraper.js 283-296, with no th on the page)
ResultTables ==
  {[data    |-> <<Arr(<<Str("Equipo"), Str("Pts")>>), Arr(<<Str(cell), Str(next)>>)>>,
    title   |-> title] :
     cell \in CellTexts, next \in {"", "7", "\"x\""}, title \in TableTitles}

\* the records scrapeSportPage keeps as matches: two or more of these
\* properties, none of them empty (enhanced-scraper.js 316-337)
MatchValues ==
  [title |-> Str("Final, ida"),
   teams |-> Arr(<<Str("Equipo 1"), Str("Equipo 2")>>),
   score |-> Str("2 - 1"),
   date  |-> Str("12 de julio")]

MatchObjects ==
  {Obj([key \in keys |-> MatchValues[key]]) :
     keys \in {subset \in SUBSET (DOMAIN MatchValues) : Cardinality(subset) > 1}}

RECURSIVE Lists(_, _)
Lists(elements, n) ==
  IF n = 0 THEN {<< >>}
  ELSE LET shorter == Lists(elements, n - 1)
       IN shorter \cup {Append(list, element) : list \in shorter, element \in elements}

MatchTables == {[data |-> matches, title |-> "Partidos"] : matches \in Lists(MatchObjects, MaxMatches)}

ReportInputs == ResultTables \cup MatchTables

InitReport ==
  /\ InitFetchVars /\ InitRunVars /\ InitDisk /\ InitIdleCLI /\ InitNoDocument
  /\ input \in ReportInputs
  /\ report = null

Rendering == UNCHANGED <<fetchVars, runVars, diskVars, cliVars, procVars, extractVars, input>>

\* const csvData = convertToCSV(result.data)  (web-scraper.js 612-617)
ConvertToCSV ==
  /\ report' = [function |-> "convertToCSV",
                result   |-> convertToCSV(input.data, noValue)]
  /\ Rendering

\* convertToHTMLTable(result.data, result.title, null)  (602-608)
ConvertToHTMLTable ==
  /\ report' = [function |-> "convertToHTMLTable",
                result   |-> convertToHTMLTable(input.data, input.title, null)]
  /\ Rendering

\* if (sport.matches && sport.matches.length > 0) {...}  (621-637): the table
\* of the sport page and `${sportFileName}_partidos.csv`
MatchesReport ==
  /\ input.data # << >>
  /\ ~IsArray(input.data[1])
  /\ report' = [function |-> "matches",
                html     |-> convertToHTMLTable(input.data, "Partidos",
                                                Arr(ObjectKeys(input.data[1]))),
                csv      |-> convertToCSV(input.data, Arr(ObjectKeys(input.data[1])))]
  /\ Rendering

NextReport == ConvertToCSV \/ ConvertToHTMLTable \/ MatchesReport
SpecReport == InitReport /\ [][NextReport]_vars

-----------------------------------------------------------------------------
(* Properties                                                               *)

SportNames == {SPORTS[k].name : k \in 1..Len(SPORTS)}

\* the declared order of the pages: the main page, then SPORTS in list order
FetchOrder == <<baseUrl>> \o [k \in 1..Len(SPORTS) |-> sportUrl(SPORTS[k])]

IsPrefix(s, t) == Len(s) <= Len(t) /\ \A k \in 1..Len(s) : s[k] = t[k]

\* runScraper is past its loop over SPORTS
LoopOver == pc \in {"saveAll", "saveSummary", "logDone", "returned"}

\* scrapeSportPage(SPORTS[k]) has been called and has returned or thrown
SportSettled(k) == idx > k \/ (idx = k /\ ~(pc = "sport" /\ spc \in {"fetch", "debug", "save"}))

\* what scrapeSportPage returns for a sport whose page was fetched
ScrapedPage(sport) ==
  LET sportData == ExtractSportData(sport, Html(sportUrl(sport)))
  IN IF sportData.threw THEN ErrorPlaceholder(sport, sportData.error) ELSE sportData.value

\* the entries of a summary for the sports whose fetch failed
FailedEntriesOK(summary) ==
  /\ Len(summary.sports) = Len(SPORTS)
  /\ \A k \in 1..Len(SPORTS) :
       /\ summary.sports[k].name = SPORTS[k].name
       /\ sportUrl(SPORTS[k]) \in failedFetches =>
            /\ summary.sports[k].error \in ErrorKinds
            /\ summary.sports[k].resultsCount = 0

\* C1: when the fetch of a sport page has failed for good, scrapeSportPage returns
\* (runScraper goes on, it does not land in its catch) and what it returns is
\* exactly { sportInfo: { name, url, error } } with the message of the fetch error
\* and no bucket, for every sport of SPORTS.
C1_PlaceholderOnFetchFailure ==
  \A k \in 1..Len(SPORTS) :
    (sportUrl(SPORTS[k]) \in failedFetches /\ SportSettled(k)) =>
      /\ SPORTS[k].name \in DOMAIN sportsData
      /\ DOMAIN sportsData[SPORTS[k].name] = {"sportInfo"}
      /\ DOMAIN sportsData[SPORTS[k].name].sportInfo = {"name", "url", "error"}
      /\ sportsData[SPORTS[k].name].sportInfo.name = SPORTS[k].name
      /\ sportsData[SPORTS[k].name].sportInfo.url = sportUrl(SPORTS[k])
      /\ sportsData[SPORTS[k].name].sportInfo.error \in ErrorKinds
      /\ (idx = k /\ pc = "sportDelay") =>
            sportsData[SPORTS[k].name].sportInfo.error = fresult.message

C1_Witness ==
  /\ pc = "sportDelay" /\ idx = Len(SPORTS)
  /\ sportUrl(SPORTS[1]) \in failedFetches
  /\ sportUrl(SPORTS[idx]) \in failedFetches
  /\ "error" \in DOMAIN sportsData[SPORTS[idx].name].sportInfo

\* C2: whatever sports fail to be fetched, runScraper aborts only on a file system
\* failure; past its loop every page has been fetched, every sport of SPORTS has
\* an entry and the entry of a sport whose fetch did not fail is what
\* scrapeSportPage made of the page it got; all_data.json and summary.json are written
\* (unless a file system call failed), and in the summary written and returned the
\* entry of each failed sport has its error set and resultsCount 0.
C2_RunSurvivesFailedSports ==
  /\ ioFaults = 0 => pc \notin {"catch", "thrown"}
  /\ LoopOver =>
       /\ DOMAIN sportsData = SportNames
       /\ fetched = FetchOrder
       /\ \A k \in 1..Len(SPORTS) :
            sportUrl(SPORTS[k]) \notin failedFetches =>
              sportsData[SPORTS[k].name] = ScrapedPage(SPORTS[k])
  /\ (ioFaults = 0 /\ pc \in {"saveSummary", "logDone", "returned"}) =>
       files["all_data.json"] # absent
  /\ (ioFaults = 0 /\ pc \in {"logDone", "returned"}) =>
       files["summary.json"] # absent
  /\ files["all_data.json"] # absent => files["all_data.json"].sports = sportsData
  /\ files["summary.json"] # absent => FailedEntriesOK(files["summary.json"])
  /\ pc = "returned" => FailedEntriesOK(runResult)

C2_Witness ==
  /\ pc = "returned"
  /\ Cardinality(failedFetches \ {baseUrl}) = 2
  /\ files["all_data.json"] # absent
  /\ files["summary.json"] # absent
  /\ \E k \in 1..Len(SPORTS) : runResult.sports[k].error \notin ErrorKinds

\* C3: one call of fetchWithRetry issues at most maxRetries + 1 = 4 GETs; every
\* failed attempt, of whatever kind, takes exactly one unit of the budget (before
\* the n-th retry the budget left is maxRetries - n + 1); and the call terminates.
C3_BoundedAttempts ==
  /\ [](/\ maxRetries + 1 = 4
        /\ Len(attempts) <= maxRetries + 1
        /\ fpc = "get" =>
             /\ retries = maxRetries - Len(attempts)
             /\ \A k \in 1..Len(attempts) : attempts[k] \in ErrorKinds
        /\ fpc = "delay" =>
             /\ retries = maxRetries - Len(attempts) + 1
             /\ retries > 0)
  /\ (fpc = "get" ~> fetchDone)

C3_Witness ==
  /\ fpc = "thrown"
  /\ Len(attempts) = 4
  /\ \E k \in 1..Len(attempts) : attempts[k] = "timeout of 30000ms exceeded"
  /\ \E k \in 1..Len(attempts) : attempts[k] # "timeout of 30000ms exceeded"

\* C4: fetchWithRetry returns the response of the first attempt that succeeds, and
\* that attempt is its last one; it throws only after maxRetries + 1 failed
\* attempts, and what it throws is the error of the last of them.
C4_FirstSuccessOrLastError ==
  /\ \A k \in 1..Len(attempts) : attempts[k] = "ok" => (k = Len(attempts) /\ fpc = "returned")
  /\ fpc = "returned" =>
       /\ attempts # << >>
       /\ attempts[Len(attempts)] = "ok"
       /\ fresult = Response(furl, Len(attempts))
       /\ inflight = 0
  /\ fpc = "thrown" =>
       /\ Len(attempts) = maxRetries + 1
       /\ retries = 0
       /\ \A k \in 1..Len(attempts) : attempts[k] \in ErrorKinds
       /\ fresult = AttemptError(attempts[Len(attempts)], Len(attempts))
       /\ inflight = 0

C4_Witness ==
  /\ fpc = "thrown"
  /\ attempts[1] # attempts[Len(attempts)]
  /\ fresult.message = attempts[Len(attempts)]

\* C5: every attempt but the first is preceded by exactly one wait, of retryDelay,
\* whatever its number; nothing is waited for once an attempt has succeeded or the
\* last attempt has failed.
C5_FixedRetryDelay ==
  /\ (fpc = "get" /\ Len(attempts) >= 1) => waits = <<retryDelay>>
  /\ fpc = "delay" => waits = << >>
  /\ fetchDone => waits = << >>

C5_Witness ==
  /\ fpc = "get"
  /\ Len(attempts) = maxRetries
  /\ waits = <<retryDelay>>

\* C6: at most one GET is in flight; the pages are fetched in the order main page,
\* then SPORTS in list order; and the first attempt for a page is issued only when
\* the fetch of the page before it has settled and its result has been taken.
C6_OnePageAtATime ==
  /\ [](/\ inflight <= 1
        /\ inflight = 1 => fpc = "get"
        /\ IsPrefix(fetched, FetchOrder)
        /\ fpc \in {"get", "delay"} => furl = fetched[Len(fetched)])
  /\ [][fetched' # fetched => (fpc = "idle" /\ inflight = 0 /\ spc = "idle")]_vars

C6_Witness ==
  /\ Len(fetched) = Len(FetchOrder)
  /\ fpc = "get"
  /\ Len(attempts) = maxRetries
  /\ failedFetches # {}

\* C7: the first attempt for every page after the main page is preceded by exactly
\* one wait of requestDelay since the last GET of the page before it settled,
\* whether that page was fetched or failed; no retryDelay takes its place.
C7_PacingBetweenPages ==
  (fpc = "get" /\ attempts = << >> /\ Len(fetched) > 1) => waits = <<requestDelay>>

C7_Witness ==
  /\ fpc = "get" /\ attempts = << >>
  /\ Len(fetched) > 2
  /\ fetched[Len(fetched) - 1] \in failedFetches
  /\ fetched[Len(fetched) - 2] \notin failedFetches
  /\ waits = <<requestDelay>>

\* C8: when the fetch of the main page has failed, scrapeMainPage returns null:
\* runScraper does not land in its catch because of it, scrapes all of SPORTS,
\* puts mainPage = null into all_data.json and returns a summary.
C8_MainPageFailureTolerated ==
  (baseUrl \in failedFetches /\ ~(pc = "main" /\ spc = "fetch")) =>
    /\ mainPageData = null
    /\ ioFaults = 0 => pc \notin {"catch", "thrown"}
    /\ LoopOver =>
         /\ DOMAIN sportsData = SportNames
         /\ fetched = FetchOrder
    /\ (ioFaults = 0 /\ pc \in {"saveSummary", "logDone", "returned"}) =>
         files["all_data.json"] # absent
    /\ files["all_data.json"] # absent => files["all_data.json"].mainPage = null
    /\ pc = "returned" =>
         /\ Len(runResult.sports) = Len(SPORTS)
         /\ runResult.eventTitle = "Juegos Nacionales Salesianos 2025"

C8_Witness ==
  /\ baseUrl \in failedFetches
  /\ pc = "returned"
  /\ files["all_data.json"] # absent
  /\ \E k \in 1..Len(SPORTS) : sportUrl(SPORTS[k]) \in failedFetches
  /\ \E k \in 1..Len(SPORTS) : sportUrl(SPORTS[k]) \notin failedFetches

\* C9: with the command both, processDataCommand starts only after runScraperCommand
\* has returned true; when runScraperCommand returns false nothing is processed and
\* runBothCommand returns false; a run in which pages failed to be fetched still
\* returns, runScraperCommand returns true for it and processDataCommand is called.
C9_BothChain ==
  (script = "cli" /\ argv = "both") =>
    /\ (cpc = "processDataCommand" \/ ppc # "idle" \/ processSuccess # "none") =>
         (scrapeSuccess = "true" /\ pc = "returned")
    /\ scrapeSuccess = "false" =>
         /\ pc = "thrown"
         /\ ppc = "idle" /\ processSuccess = "none" /\ reports = {}
         /\ cmdResult = "false"
    /\ (scrapeSuccess # "none" /\ failedFetches # {} /\ ioFaults = 0) =>
         /\ scrapeSuccess = "true"
         /\ cpc = "processDataCommand" \/ processSuccess # "none"

C9_Witness ==
  /\ script = "cli" /\ argv = "both" /\ cpc = "exited"
  /\ Cardinality(failedFetches \ {baseUrl}) = 1
  /\ scrapeSuccess = "true"
  /\ processed = "true"
  /\ cmdResult = "true"

\* C10: the node process exits with 0 when the command succeeded and with 1 when
\* the scrape or the processing ended in a fatal error.
C10_ExitCode ==
  cpc = "exited" =>
    /\ (pc = "thrown" \/ processed = "false") => exitCode = 1
    /\ (pc # "thrown" /\ processed # "false" /\ cmdResult # "false") => exitCode = 0

\* C11: when processAllSportsData failed because the reports directory could not
\* be created or all_data.json could not be loaded, the command that ran it does
\* not report success: processDataCommand does not return true, and neither
\* processCommand (process, both) nor runScraperAndProcessData gives a true result.
C11_ProcessingFailureReported ==
  (/\ perror # null
   /\ perror.message \in {"EACCES: mkdir", "Failed to load all_data.json file"}) =>
    /\ processSuccess # "true"
    /\ cmdResult # "true"

\* C12: the catch of runScraper appends an ERROR entry for the error it caught to
\* scraping_log.txt and then throws that same error, whatever raised it, a failed
\* creation of the output directory included.
C12_CaughtLoggedRethrown ==
  [][(pc = "catch" /\ pc' = "thrown") =>
       /\ logFile' = Append(logFile, "ERROR " \o runResult.message)
       /\ runResult' = runResult]_vars

-----------------------------------------------------------------------------
(* A node process started where an earlier run has left its files: that run *)
(* went through without a failure, on the site as it was then               *)

\* the main page as it was when the earlier run fetched it
PriorHtml ==
  Document(<< Node("head", {},
                   <<Leaf("title", {}, "Juegos Nacionales Salesianos 2025 - Inscripciones")>>) >>)

\* the sports as the earlier run left them in all_data.json
PriorSports ==
  [name \in SportNames |->
     ErrorPlaceholder(SPORTS[CHOOSE k \in 1..Len(SPORTS) : SPORTS[k].name = name],
                      [message |-> "element.find is not a function"])]

PriorFiles ==
  [f \in FileNames |->
     CASE f = "main_page.json" -> MainPageRecord(PriorHtml)
       [] f = "all_data.json" ->
            [mainPage |-> MainPageRecord(PriorHtml),
             sports   |-> PriorSports,
             metadata |-> [version |-> "1.0.0",
                           sportsScraped |-> [k \in 1..Len(SPORTS) |-> SPORTS[k].name]]]
       [] f = "summary.json" ->
            [eventTitle |-> MainPageRecord(PriorHtml).generalInfo.title,
             sports     |-> [k \in 1..Len(SPORTS) |->
                               SummaryEntry(SPORTS[k].name, PriorSports[SPORTS[k].name])]]
       [] OTHER -> absent]

InitPriorDisk ==
  /\ outDir = TRUE
  /\ files = PriorFiles
  /\ logFile = << >>
  /\ ioFaults = 0

InitRerun ==
  InitFetchVars /\ InitRunVars /\ InitPriorDisk /\ InitCLI /\ InitNoDocument /\ InitNoReport
SpecRerun == InitRerun /\ [][Next]_vars

\* C13: when a run has completed, every JSON output that exists holds what this
\* run made: main_page.json the main page it scraped, all_data.json its allData,
\* summary.json its summary; nothing an earlier run wrote is left
C13_NothingSurvives ==
  pc = "returned" =>
    \A f \in JsonFiles :
      files[f] # absent =>
        /\ files[f] # PriorFiles[f]
        /\ f = "main_page.json" => mainPageData # null /\ files[f] = mainPageData
        /\ f = "all_data.json" => files[f] = AllData
        /\ f = "summary.json" => files[f] = Summary

\* C14: extractWithFallbackSelectors returns the first element matched by the
\* first selector of the list that matches anything in the document, whether it
\* is called with or without a context
C14_FirstMatchingSelector ==
  (extracted # null /\ extracted.block = "fallback") =>
    LET selectors == extracted.selectors
        hits == {k \in 1..Len(selectors) : find(dom, Root, selectors[k]) # << >>}
        winner == CHOOSE k \in hits : \A j \in hits : k <= j
    IN hits # {} =>
         /\ ~extracted.result.threw
         /\ extracted.result.value = first(find(dom, Root, selectors[winner]))

\* C15: whatever elements a page lacks, lines 253-462 run through without an
\* error: the scrape of the page yields its sportData and does not end in the
\* catch of scrapeSportPage
C15_MissingDataNeverThrows ==
  (extracted # null /\ extracted.block = "page") => ~extracted.result.threw

\* no key of the record maps to an empty string or to an empty sequence
Normalized(record, arrayKeys) ==
  \A key \in DOMAIN record :
    IF key \in arrayKeys THEN Len(record[key]) # 0 ELSE record[key] # ""

\* the objects among the cells of the tables of a page
CellObjects(results) ==
  {results[n].data[j][k] : <<n, j, k>> \in
     {<<n, j, k>> \in (1..Len(results)) \X (1..(MaxRows + 2)) \X (1..3) :
        /\ j <= Len(results[n].data)
        /\ k <= Len(results[n].data[j])
        /\ "text" \in DOMAIN results[n].data[j][k]}}

MatchAndNewsNormalized(buckets) ==
  /\ \A n \in 1..Len(buckets.matches) : Normalized(buckets.matches[n], {"teams"})
  /\ \A n \in 1..Len(buckets.news) : Normalized(buckets.news[n], {})

CleanText(str) ==
  /\ trim(str) = str
  /\ \A k \in 1..(Len(str) - 1) :
       ~(IsSpace(SubSeq(str, k, k)) /\ IsSpace(SubSeq(str, k + 1, k + 1)))

IsTableOf(d, p) == d \in {TableDocument(p, {}), TableDocument(p, {"standings"})}

FirstOf(texts) ==
  LET full == {k \in 1..Len(texts) : texts[k] # ""}
  IN texts[CHOOSE k \in full : \A j \in full : k <= j]

HeadedTables == {p \in TableParams : p.heading.clean # "" /\ p.caption = NoText}

\* the header row as it is extracted
HeaderRow == <<Str("Pos"), Str("Equipo"), Str("Pts")>>

ReaderStart == [at |-> "record", field |-> "", record |-> << >>, records |-> << >>]

\* the reader takes the character c
ReaderStep(reader, c) ==
  IF reader.at = "quoted"
    THEN IF c = "\"" THEN [reader EXCEPT !.at = "quote"]
         ELSE [reader EXCEPT !.field = @ \o c]
  ELSE IF c = "\""
    THEN IF reader.at \in {"record", "field"} THEN [reader EXCEPT !.at = "quoted"]
         ELSE IF reader.at = "quote" THEN [reader EXCEPT !.at = "quoted", !.field = @ \o c]
         ELSE [reader EXCEPT !.field = @ \o c]
  ELSE IF c = ","
    THEN [reader EXCEPT !.at = "field", !.field = "",
                        !.record = Append(@, reader.field)]
  ELSE IF c = "\n"
    THEN [at |-> "record", field |-> "", record |-> << >>,
          records |-> Append(reader.records, Append(reader.record, reader.field))]
  ELSE [reader EXCEPT !.at = "plain", !.field = @ \o c]

\* the reader takes the characters from..to of csv: the first half of them,
\* then from the state it is in by then the second half
RECURSIVE ReaderScan(_, _, _, _)
ReaderScan(reader, csv, from, to) ==
  IF from > to THEN reader
  ELSE IF from = to THEN ReaderStep(reader, SubSeq(csv, from, from))
  ELSE LET middle == (from + to) \div 2
       IN CHOOSE after \in {ReaderScan(halfway, csv, middle + 1, to) :
                              halfway \in {ReaderScan(reader, csv, from, middle)}} : TRUE

\* the records of the text csv
readCSV(csv) ==
  LET reader == ReaderScan(ReaderStart, csv, 1, Len(csv))
  IN IF reader.at = "record" THEN reader.records
     ELSE Append(reader.records, Append(reader.record, reader.field))

\* the table in hand is one of rows of cells, as result.data is
IsResultTable == input.data # << >> /\ IsArray(input.data[1])
\* the table in hand is one of match records
IsMatchTable == input.data # << >> /\ ~IsArray(input.data[1])

NeedsQuotes(cellText) ==
  includes(cellText, ",") \/ includes(cellText, "\"") \/ includes(cellText, "\n")

\* C22: the text convertToCSV makes of a table of text cells, read by a
\* reader of comma-separated values, gives back the rows of the table with
\* every cell exactly as it was; a cell with a comma, a double quote or a line
\* feed stands in the text in double quotes with its own quotes doubled, and a
\* row of cells with none of the three stands in it as it is. Of a table of
\* match records the reader gives back the keys of the first record and, for
\* each record, the texts of its values under these keys.
C22_CSVRoundTrip ==
  (report # null /\ report.function = "convertToCSV") =>
     /\ IsResultTable =>
          LET cell == input.data[2].array[1].string
              next == input.data[2].array[2].string
          IN /\ readCSV(report.result)
                  = [k \in 1..Len(input.data) |->
                       [n \in 1..Len(input.data[k].array) |-> input.data[k].array[n].string]]
             /\ NeedsQuotes(cell) =>
                  \E doubled \in {replaceAll(cell, "\"", "\"\"")} :
                     /\ Len(doubled) = Len(cell) + Cardinality({k \in 1..Len(cell) :
                                                                 SubSeq(cell, k, k) = "\""})
                     /\ includes(report.result, "\n\"" \o doubled \o "\",")
             /\ (~NeedsQuotes(cell) /\ ~NeedsQuotes(next)) =>
                  report.result = "Equipo,Pts\n" \o cell \o "," \o next \o "\n"
     /\ IsMatchTable =>
          LET keys == ObjectKeys(input.data[1])
          IN readCSV(report.result)
               = <<keys>> \o [k \in 1..Len(input.data) |->
                                [n \in 1..Len(keys) |->
                                   IF keys[n] \in DOMAIN input.data[k].object
                                     THEN StringOf(input.data[k].object[keys[n]])
                                     ELSE ""]]
     /\ input.data = << >> => report.result = ""

\* a cell with a comma, a quote and a line feed has been written
C22_Witness ==
  /\ report # null
  /\ report.function = "convertToCSV"
  /\ IsResultTable
  /\ input.data[2] = Arr(<<Str(",\"\n"), Str("7")>>)
  /\ report.result = "Equipo,Pts\n\",\"\"\n\",7\n"



\* a step in which saveToFile's write fails: the save of main_page.json, of
\* all_data.json or of summary.json
SaveFails ==
  /\ \/ pc = "main" /\ spc = "save"
     \/ pc = "saveAll"
     \/ pc = "saveSummary"
  /\ ioFaults' = ioFaults + 1

\* C24: a save whose write fails throws nothing and leaves the run going: the
\* file is not written, runScraper is not taken to its catch block and holds
\* no error, and it is at its next stage (the pause before the sport pages
\* after main_page.json, the save of summary.json after all_data.json, the
\* completion log after summary.json); and whenever runScraper returns, it
\* returns the summary, whatever has been saved.
C24_FailedSaveDoesNotAbort ==
  /\ [][SaveFails =>
          /\ files' = files
          /\ runResult' = runResult
          /\ sportsData' = sportsData
          /\ pc' = (CASE pc = "main"        -> "mainDelay"
                      [] pc = "saveAll"     -> "saveSummary"
                      [] pc = "saveSummary" -> "logDone")]_vars
  /\ [](pc = "returned" => runResult = Summary)

\* a run has returned its summary although all_data.json could not be written,
\* and has written summary.json after it
C24_Witness ==
  /\ pc = "returned"
  /\ runResult = Summary
  /\ ioFaults = 1
  /\ files["all_data.json"] = absent
  /\ files["summary.json"] = Summary
\* the positions at which part stands in str, and the n-th of a set of positions
Positions(str, part) ==
  {k \in 1..(Len(str) - Len(part) + 1) : SubSeq(str, k, k + Len(part) - 1) = part}
Nth(positions, n) ==
  CHOOSE k \in positions : Cardinality({j \in positions : j < k}) = n - 1

\* the texts of the td elements of a fragment, in the order of the fragment
TdTexts(html) ==
  [n \in 1..Cardinality(Positions(html, "<td>")) |->
     SubSeq(html, Nth(Positions(html, "<td>"), n) + 4, Nth(Positions(html, "</td>"), n) - 1)]

\* str with every part replaced by the text by
RECURSIVE replaceText(_, _, _)
replaceText(str, part, by) ==
  IF Len(str) < Len(part) THEN str
  ELSE IF SubSeq(str, 1, Len(part)) = part
    THEN by \o replaceText(SubSeq(str, Len(part) + 1, Len(str)), part, by)
  ELSE SubSeq(str, 1, 1) \o replaceText(SubSeq(str, 2, Len(str)), part, by)

\* the text a browser shows for escaped text: the character references resolved
Rendered(escaped) ==
  replaceText(replaceText(replaceText(replaceText(replaceText(escaped,
    "&lt;", "<"), "&gt;", ">"), "&quot;", "\""), "&#039;", "'"), "&amp;", "&")

Entities == {"&amp;", "&lt;", "&gt;", "&quot;", "&#039;"}

\* no character of markup stands in str but the & that opens a character reference
IsEscaped(str) ==
  /\ \A c \in {"<", ">", "\"", "'"} : ~includes(str, c)
  /\ \A k \in Positions(str, "&") :
       \E entity \in Entities :
          /\ k + Len(entity) - 1 <= Len(str)
          /\ SubSeq(str, k, k + Len(entity) - 1) = entity

\* the cell values of the table in hand, row by row, as convertToHTMLTable
\* is to show them: the cells of a row of cells, the values of a match record
\* under the keys of the first record
ShownCells ==
  IF IsResultTable
    THEN [k \in 1..Len(input.data) |->
            [n \in 1..Len(input.data[k].array) |-> input.data[k].array[n].string]]
    ELSE [k \in 1..Len(input.data) |->
            [n \in 1..Len(ObjectKeys(input.data[1])) |->
               IF ObjectKeys(input.data[1])[n] \in DOMAIN input.data[k].object
                 THEN StringOf(input.data[k].object[ObjectKeys(input.data[1])[n]])
                 ELSE ""]]

ThTexts(html) ==
  [n \in 1..Cardinality(Positions(html, "<th>")) |->
     SubSeq(html, Nth(Positions(html, "<th>"), n) + 4, Nth(Positions(html, "</th>"), n) - 1)]

\* the text of the value a match record has under a column, empty if it has none
MatchCell(match, column) ==
  IF column \in DOMAIN match.object THEN StringOf(match.object[column]) ELSE ""

\* C25: in the matches report of a sport, the columns of the CSV file and of
\* the HTML table are the keys of the first match record, each once; every
\* record gives one row of exactly one cell per column, holding the text of
\* its value under that column and nothing where it has no such key; a key
\* that only later records have is no column.
C25_ColumnsOfFirstMatch ==
  (report # null /\ report.function = "matches") =>
     LET firstKeys == DOMAIN input.data[1].object
         records == readCSV(report.csv)
         heads == ThTexts(report.html)
         cells == TdTexts(report.html)
         columns == Cardinality(firstKeys)
     IN /\ Len(records) = Len(input.data) + 1
        /\ Len(records[1]) = columns
        /\ {records[1][n] : n \in 1..columns} = firstKeys
        /\ Len(heads) = columns
        /\ heads = records[1]
        /\ Len(cells) = Len(input.data) * columns
        /\ \A k \in 1..Len(input.data) :
             /\ Len(records[k + 1]) = columns
             /\ \A n \in 1..columns :
                  /\ records[k + 1][n] = MatchCell(input.data[k], records[1][n])
                  /\ Rendered(cells[(k - 1) * columns + n])
                       = MatchCell(input.data[k], heads[n])
             /\ \A key \in DOMAIN input.data[k].object \ firstKeys :
                  \A n \in 1..columns : records[1][n] # key /\ heads[n] # key

\* the report of two matches, the first with a title and a score, the second
\* with a title and a date
C25_Witness ==
  /\ report # null
  /\ report.function = "matches"
  /\ Len(input.data) = 2
  /\ DOMAIN input.data[1].object = {"title", "score"}
  /\ DOMAIN input.data[2].object = {"title", "date"}
  /\ report.csv = "title,score\n\"Final, ida\",2 - 1\n\"Final, ida\",\n"
  /\ includes(report.html, "<tr><td>Final, ida</td><td></td></tr></tbody>")

====
